---------------------------- MODULE Spec2Model ----------------------------
(***************************************************************************)
(* esdoc-plugin-jspm: the dependency walker (parseTopLevelDependencies),   *)
(* the package resolver, the manifest parser and config preparation        *)
(* (onStart / onHandleConfig).                                             *)
(*                                                                         *)
(* Strings the code builds with + and path.sep are sequences of path       *)
(* segments; a package identity ("npm:a@1") is one string whose parts      *)
(* (registry, name, directory) are read off by the tables below.           *)
(***************************************************************************)
EXTENDS Naturals, Sequences, FiniteSets, TLC

(***************************************************************************)
(* The universe of package identities: the keys and values of the          *)
(* `map` of config.js.  Two versions of package b let one package name     *)
(* resolve to two paths.                                                   *)
(***************************************************************************)
Ids == {"npm:a@1", "npm:b@1", "npm:b@2"}

\* JS null / undefined, as stored in jspmPackageMap by onStart.
Null == "null"

\* Bounds of the walker's inputs: the entries of all dependency hashes of config.js together,
\* and the length of the top-level list.
MaxEdges == 3
MaxTop == 2

SeqsUpTo(S, n) == UNION {[1..k -> S] : k \in 0..n}

Range(s) == {s[i] : i \in 1..Len(s)}

\* The number of entries of all hashes of a map.
RECURSIVE TotalLen(_, _)
TotalLen(map, keys) ==
  IF keys = {} THEN 0
  ELSE LET k == CHOOSE x \in keys : TRUE IN Len(map[k]) + TotalLen(map, keys \ {k})

\* The maps config.js can hold: every key lists child identities, in key order; two aliases
\* of one hash may name the same identity.
DepMaps == {m \in [Ids -> SeqsUpTo(Ids, MaxEdges)] : TotalLen(m, Ids) <= MaxEdges}

\* In(v) with v evaluated once.
Let(v, In(_)) == CHOOSE out \in {In(x) : x \in {v}} : TRUE

NoDup(s) == \A i, j \in 1..Len(s) : s[i] = s[j] => i = j

\* JS undefined; JS booleans of the plugin options are the strings "true" and "false".
Undefined == "undefined"

\* x || y of JavaScript.
Truthy(x) == x \notin {"false", Undefined, Null}
Or(x, y) == IF Truthy(x) THEN x ELSE y

(***************************************************************************)
(* The names the plugin options and the manifest can use.  "b" is a plain  *)
(* jspm package (version 1 of b), "k" an alias of version 2 of b, "x" a    *)
(* module that the loader does not place under jspm_packages.  Package a   *)
(* is reached as a dependency only.                                        *)
(***************************************************************************)
Names == {"b", "k", "x"}

\* Bounds of the plugin's inputs: entries of option.packages, entries of jspm.dependencies of
\* package.json, and entries of all dependency hashes of config.js in a documentation run.
MaxPkgs == 2
MaxDecl == 2
MaxCfgEdges == 1

\* Sequences without a repeated element.
DistinctSeqs(S, n) == {q \in SeqsUpTo(S, n) : NoDup(q)}

\* config.js of a documentation run.
ConfigMaps == {m \in [Ids -> SeqsUpTo(Ids, MaxCfgEdges)] : TotalLen(m, Ids) <= MaxCfgEdges}

\* The states of package.json: unreadable, not JSON, without `jspm`, without `jspm.dependencies`,
\* or with the dependencies named by deps (in key order).
Manifests ==
  {[kind |-> k, deps |-> <<>>] : k \in {"missing", "invalid", "nojspm", "nodeps"}}
    \cup {[kind |-> "ok", deps |-> d] : d \in DistinctSeqs(Names, MaxDecl)}

\* The doc-config file of a package directory: absent, without a string `source`, with a
\* `source` that is not on disk, or well-formed.  At most one package is not well-formed.
DocConfigs ==
  {f \in [Ids -> {"none", "nosource", "nopath", "ok"}] :
     Cardinality({i \in Ids : f[i] # "ok"}) <= 1}

\* What reading and parsing one doc-config file gives: the file is absent, is not JSON, holds
\* a JSON value that is not an object, holds the JSON null, or holds an object: without a
\* string `source`, with a `source` that is not on disk, or well-formed.
FileKinds == {"missing", "invalid", "notobject", "jsonnull", "nosource", "nopath", "ok"}

\* The two doc-config files of a package directory.
ConfigFiles == [esdocrc : FileKinds, esdocJson : FileKinds]

\* The files of the packages that are configured by esdoc.json alone.
FilesOf(docs) ==
  [id \in Ids |-> [esdocrc |-> "missing",
                   esdocJson |-> IF docs[id] = "none" THEN "missing" ELSE docs[id]]]

\* The plugin options of esdoc.json.  No name is listed twice: a repeated name is one key of
\* the hash that onStart and packageParser build from the list.
Options ==
  [packages : DistinctSeqs(Names, MaxPkgs),
   parseDependencies : {Undefined, "true", "false"},
   silent : {Undefined, "true"}]

(***************************************************************************)
(* Object hashes whose key order the code relies on (for-in) are sequences *)
(* of [key, value] entries; an undefined hash has defined = FALSE.         *)
(***************************************************************************)
UndefinedMap == [defined |-> FALSE, entries |-> <<>>]

EmptyMap == [defined |-> TRUE, entries |-> <<>>]

HasKey(entries, k) == \E i \in 1..Len(entries) : entries[i].key = k

\* hash[k] = v: a new key goes last, an existing key keeps its place.
Put(entries, k, v) ==
  IF HasKey(entries, k)
  THEN [i \in 1..Len(entries) |->
          IF entries[i].key = k THEN [key |-> k, value |-> v] ELSE entries[i]]
  ELSE Append(entries, [key |-> k, value |-> v])

Values(entries) == [i \in 1..Len(entries) |-> entries[i].value]

Keys(entries) == [i \in 1..Len(entries) |-> entries[i].key]

\* ev.data.config.source as esdoc.json gives it, in path segments.
LocalSource == <<".", "app">>

\* ev.data.config.includes as the user wrote it in esdoc.json.
UserIncludes == <<(<<"^", "user">>)>>

VARIABLES
  topLevelPackages,   \* parseTopLevelDependencies: its argument
  jspmConfig,         \* parseTopLevelDependencies: jspmConfig.map, key -> child identities in key order
  seenPackages,       \* parseTopLevelDependencies: the object hash of seen packages
  childPackages,      \* parseTopLevelDependencies: the list it returns
  cntr,               \* parseTopLevelDependencies: the loop counter (1-based here)
  wpc,                \* parseTopLevelDependencies: position: "idle", "top", "child", "done"
  packageJson,        \* the file at packagePath (environment)
  esdocJson,          \* the doc-config of every package directory as it loads (environment)
  esdocFiles,         \* the files .esdocrc and esdoc.json of every package directory (environment)
  evOption,           \* ev.data.option as esdoc.json gives it
  option,             \* the module-level sanitized option map
  silent,             \* the module-level silent flag
  jspmPackageMap,     \* module-level object hash: [defined, entries], entries in key order
  config,             \* ev.data.config: source, includes
  normalizedData,     \* the package records of the run, in order
  normalizedDataESDoc, \* packageParser.js: the records of the doc-enabled packages, in order
  astReplace,         \* module-level rule tables
  codeReplace,
  importReplace,
  htmlReplace,
  searchReplace,
  esdocPluginJspm,    \* global.$$esdoc_plugin_jspm, [defined |-> FALSE] until packageParser sets it
  packageGraph,       \* the module-level node and link lists of packageGraphParser.js per scope
  argPackageName,     \* the argument of a resolver call made on its own, Null otherwise
  log,                \* the lines written to console.log, in order
  thrown,             \* the error that left the callback, Null when none
  pc,                 \* the host's position in the lifecycle: "boot", "started", "configured", "aborted"
  ev                  \* the last per-unit callback: its name, ev.data as given and as it left it;
                      \* for a resolver called on its own, the call before the last one

walkVars == <<topLevelPackages, jspmConfig, seenPackages, childPackages, cntr, wpc>>

envVars == <<packageJson, esdocJson, esdocFiles, evOption>>

ruleVars == <<astReplace, codeReplace, importReplace, htmlReplace, searchReplace>>

runVars == <<option, silent, jspmPackageMap, config, normalizedData, normalizedDataESDoc,
            esdocPluginJspm, packageGraph, argPackageName, log, thrown, pc>>

vars == <<topLevelPackages, jspmConfig, seenPackages, childPackages, cntr, wpc,
          packageJson, esdocJson, esdocFiles, evOption, option, silent, jspmPackageMap, config,
          normalizedData, normalizedDataESDoc, astReplace, codeReplace, importReplace, htmlReplace, searchReplace,
          esdocPluginJspm, packageGraph, argPackageName, log, thrown, pc, ev>>

\* packageGraphParser has not run: the lists are empty, the global graph data is not set.
NoGraph ==
  [built |-> FALSE, calls |-> 0,
   packageGraphAll |-> [maxLevel |-> 0, nodes |-> <<>>, links |-> <<>>],
   packageGraphDev |-> [maxLevel |-> 0, nodes |-> <<>>, links |-> <<>>],
   packageGraphMain |-> [maxLevel |-> 0, nodes |-> <<>>, links |-> <<>>]]

\* No per-unit callback has run.
NoEvent == [callback |-> "none", given |-> <<>>, data |-> <<>>]

-----------------------------------------------------------------------------
(* The dependency walker, src/src/plugin.js parseTopLevelDependencies.       *)

\* jspmConfig.map[key]: the child identities of key; undefined (no iteration) for an unknown key.
MapOf(map, key) == IF key \in DOMAIN map THEN map[key] ELSE <<>>

\* A for-in loop over one packageDependency hash that pushes without looking at seenPackages.
RECURSIVE ScanDepsNoSeen(_, _)
ScanDepsNoSeen(deps, w) ==
  IF deps = <<>> THEN w
  ELSE ScanDepsNoSeen(Tail(deps),
         [seen  |-> w.seen \cup {Head(deps)},
          child |-> Append(w.child, Head(deps))])

\* A for-in loop that marks a package seen before it tests it.
RECURSIVE ScanDepsMarkFirst(_, _)
ScanDepsMarkFirst(deps, w) ==
  IF deps = <<>> THEN w
  ELSE ScanDepsMarkFirst(Tail(deps), [seen |-> w.seen \cup {Head(deps)}, child |-> w.child])

\* The for-in loop over one packageDependency hash (lines 710-718 and 726-734):
\* push the child when it is not in seenPackages, then mark it seen.
RECURSIVE ScanDeps(_, _)
ScanDeps(deps, w) ==
  IF deps = <<>> THEN w
  ELSE ScanDeps(Tail(deps),
         [seen  |-> w.seen \cup {Head(deps)},
          child |-> IF Head(deps) \notin w.seen THEN Append(w.child, Head(deps)) ELSE w.child])

\* The first loop (lines 704-719), from index i on.
RECURSIVE TopLoop(_, _, _, _)
TopLoop(top, map, i, w) ==
  IF i > Len(top) THEN w
  ELSE Let(ScanDeps(MapOf(map, top[i]), w), LAMBDA w2 : TopLoop(top, map, i + 1, w2))

\* The second loop (lines 722-735), from index i on; the list grows while it is traversed.
RECURSIVE ChildLoop(_, _, _)
ChildLoop(map, i, w) ==
  IF i > Len(w.child) THEN w
  ELSE Let(ScanDeps(MapOf(map, w.child[i]), w), LAMBDA w2 : ChildLoop(map, i + 1, w2))

\* Both loops: [seen, child] when the function returns.
WalkerRun(top, map) ==
  Let(TopLoop(top, map, 1, [seen |-> {}, child |-> <<>>]), LAMBDA w : ChildLoop(map, 1, w))

\* The whole function: the list it returns.
parseTopLevelDependencies(top, map) == WalkerRun(top, map).child

\* The work list can hold each identity once; one more entry shows a repeat.
MaxWork == Cardinality(Ids) + 1

\* The walker run on its own: the plugin's callbacks are not involved.
IdleRun ==
  /\ packageJson = [kind |-> "missing", deps |-> <<>>]
  /\ esdocJson = [i \in Ids |-> "ok"]
  /\ esdocFiles = FilesOf(esdocJson)
  /\ evOption = [packages |-> <<>>, parseDependencies |-> Undefined, silent |-> Undefined]
  /\ option = [packages |-> <<>>, parseDependencies |-> Undefined, silent |-> Undefined]
  /\ silent = Undefined
  /\ jspmPackageMap = UndefinedMap
  /\ config = [source |-> LocalSource, includes |-> UserIncludes]
  /\ normalizedData = <<>>
  /\ normalizedDataESDoc = <<>>
  /\ astReplace = <<>>
  /\ codeReplace = <<>>
  /\ importReplace = <<>>
  /\ htmlReplace = <<>>
  /\ searchReplace = <<>>
  /\ esdocPluginJspm = [defined |-> FALSE]
  /\ packageGraph = NoGraph
  /\ argPackageName = Null
  /\ log = <<>>
  /\ thrown = Null
  /\ pc = "boot"
  /\ ev = NoEvent

WalkInit ==
  /\ jspmConfig \in DepMaps
  /\ topLevelPackages \in SeqsUpTo(Ids \cup {Null}, MaxTop)
  /\ seenPackages = {}
  /\ childPackages = <<>>
  /\ cntr = 1
  /\ wpc = "top"
  /\ IdleRun

\* One iteration of the first loop.
WalkTopStep ==
  /\ wpc = "top"
  /\ cntr <= Len(topLevelPackages)
  /\ LET w == ScanDeps(MapOf(jspmConfig, topLevelPackages[cntr]),
                       [seen |-> seenPackages, child |-> childPackages])
     IN /\ seenPackages' = w.seen
        /\ childPackages' = w.child
  /\ cntr' = cntr + 1
  /\ UNCHANGED <<topLevelPackages, jspmConfig, wpc>>
  /\ UNCHANGED <<envVars, ruleVars, runVars, ev>>

\* The first loop ends; the second starts at index 0.
WalkTopEnd ==
  /\ wpc = "top"
  /\ cntr > Len(topLevelPackages)
  /\ wpc' = "child"
  /\ cntr' = 1
  /\ UNCHANGED <<topLevelPackages, jspmConfig, seenPackages, childPackages>>
  /\ UNCHANGED <<envVars, ruleVars, runVars, ev>>

\* One iteration of the second loop.
WalkChildStep ==
  /\ wpc = "child"
  /\ cntr <= Len(childPackages)
  /\ Len(childPackages) <= MaxWork
  /\ LET w == ScanDeps(MapOf(jspmConfig, childPackages[cntr]),
                       [seen |-> seenPackages, child |-> childPackages])
     IN /\ seenPackages' = w.seen
        /\ childPackages' = w.child
  /\ cntr' = cntr + 1
  /\ UNCHANGED <<topLevelPackages, jspmConfig, wpc>>
  /\ UNCHANGED <<envVars, ruleVars, runVars, ev>>

\* return childPackages
WalkReturn ==
  /\ wpc = "child"
  /\ cntr > Len(childPackages)
  /\ wpc' = "done"
  /\ UNCHANGED <<topLevelPackages, jspmConfig, seenPackages, childPackages, cntr>>
  /\ UNCHANGED <<envVars, ruleVars, runVars, ev>>

WalkNext == WalkTopStep \/ WalkTopEnd \/ WalkChildStep \/ WalkReturn

SpecWalk == WalkInit /\ [][WalkNext]_vars

\* The loop is synchronous code: it keeps running until it returns.
FairSpecWalk == SpecWalk /\ WF_vars(WalkNext)

-----------------------------------------------------------------------------
(* The loader and the file system, as the plugin sees them.                  *)

\* System.normalizeSync(packageName): the package under jspm_packages the name resolves to
\* (its identity stands for the file URL), Null when the URL is outside jspm_packages.
normalizeSync(packageName) ==
  CASE packageName = "npm:a@1" -> "npm:a@1"
    [] packageName \in {"b", "npm:b@1"} -> "npm:b@1"
    [] packageName \in {"k", "npm:b@2"} -> "npm:b@2"
    [] OTHER -> Null

\* path.parse(url.parse(normalized).pathname).name
ParsedName(normalized) ==
  CASE normalized = "npm:a@1" -> "a@1"
    [] normalized = "npm:b@1" -> "b@1"
    [] normalized = "npm:b@2" -> "b@2"

\* parsedPath.name.split('@').shift()
SplitAtShift(name) == IF name = "a@1" THEN "a" ELSE "b"

\* packageName.indexOf('@') >= 0
HasAt(packageName) == packageName \in Ids

\* jspm.dependencies[key] of package.json for a declared key.
Specifier(key) ==
  CASE key = "b" -> "npm:b@1"
    [] key = "k" -> "npm:b@2"
    [] key = "x" -> "./x"

\* The root path, in segments; its last segment is the root directory name.
RootPath == <<"home", "proj">>

\* The `name` of package.json.
ManifestName == "proj-name"

\* The `source` entry of a package's doc-config file, in segments.
SourceOf(normalized) ==
  CASE normalized = "npm:a@1" -> <<"s", "lib">>
    [] normalized = "npm:b@1" -> <<".", "src">>
    [] normalized = "npm:b@2" -> <<".", "src">>

\* str.replace(new RegExp('^\.' + path.sep), ''): in the string literal '\.' is '.', so the
\* pattern removes any one leading character that a separator follows.
StripLeadingDir(segments) ==
  IF Len(segments) > 1 /\ Head(segments) \in {".", "s"} THEN Tail(segments) ELSE segments

Line(level, text, about) == [level |-> level, text |-> text, about |-> about]

\* console.log(line) whatever the flag says.
LogAlways(sil, line) == <<line>>

\* if (!silent) console.log(line)
LogUnless(sil, line) == IF Truthy(sil) THEN <<>> ELSE <<line>>

-----------------------------------------------------------------------------
(* src/src/plugin.js (0.3 - 0.4): onStart, the manifest parser and the       *)
(* resolver.                                                                 *)

\* onStart, lines 97-105: option.packages as an object hash with no mapped path.
RECURSIVE PackagesToMap(_, _)
PackagesToMap(packages, entries) ==
  IF packages = <<>> THEN entries
  ELSE PackagesToMap(Tail(packages), Put(entries, Head(packages), Null))

\* The for-in loop of lines 563-574 from entry i on: acc = [entries, log].
RECURSIVE ResolveDeclared(_, _, _, _)
ResolveDeclared(deps, sil, i, acc) ==
  IF i > Len(acc.entries) THEN acc
  ELSE LET key == acc.entries[i].key
       IN ResolveDeclared(deps, sil, i + 1,
            IF key \in Range(deps)
            THEN [acc EXCEPT !.entries = Put(acc.entries, key, Specifier(key))]
            ELSE [acc EXCEPT !.log = @ \o LogUnless(sil, Line("Warning", "not in jspm.dependencies", key))])

\* The manifest's jspm.dependencies as an object hash.
RECURSIVE DepsToMap(_, _)
DepsToMap(deps, entries) ==
  IF deps = <<>> THEN entries
  ELSE DepsToMap(Tail(deps), Put(entries, Head(deps), Specifier(Head(deps))))

\* parsePackageJsonJSPMDependencies(packageObj, jspmPackageMap): [map, log].
parsePackageJsonJSPMDependencies(packageObj, map, sil) ==
  IF packageObj.kind \in {"nojspm", "nodeps"}
  THEN [map |-> IF map.defined THEN map ELSE EmptyMap,
        log |-> LogUnless(sil, Line("Warning", "no jspm.dependencies", "package.json"))]
  ELSE IF map.defined
       THEN LET r == ResolveDeclared(packageObj.deps, sil, 1, [entries |-> map.entries, log |-> <<>>])
            IN [map |-> [defined |-> TRUE, entries |-> r.entries], log |-> r.log]
       ELSE [map |-> [defined |-> TRUE, entries |-> DepsToMap(packageObj.deps, <<>>)],
             log |-> <<>>]

\* The try body of the resolver without the check of `source`.
TryLinkNoSourceCheck(packageName, normalized, docs) ==
  LET name == ParsedName(normalized)
      actualPackageName == SplitAtShift(name)
      isDependency == HasAt(packageName)
      source == SourceOf(normalized)
      relativePath == <<"jspm_packages", "npm", name>> \o StripLeadingDir(source)
      linkedName == IF isDependency THEN actualPackageName ELSE packageName
  IN IF docs[normalized] = "none" THEN [result |-> <<>>, error |-> "Cannot find module"]
     ELSE [result |-> <<[packageName |-> linkedName,
                         actualPackageName |-> actualPackageName,
                         isDependency |-> isDependency,
                         fullPath |-> RootPath \o relativePath,
                         relativePath |-> relativePath,
                         source |-> source,
                         isAlias |-> linkedName # actualPackageName,
                         normalizedPath |-> <<linkedName>> \o source]>>,
           error |-> Null]

\* The try body of parseNormalizedPackage, lines 616-661: [result, error]; result holds the
\* record (jspmFullPath and jspmPath are its fullPath and relativePath), error what was thrown.
TryLink(packageName, normalized, docs) ==
  LET name == ParsedName(normalized)
      actualPackageName == SplitAtShift(name)
      isDependency == HasAt(packageName)
      source == SourceOf(normalized)
      relativePath == <<"jspm_packages", "npm", name>> \o StripLeadingDir(source)
      linkedName == IF isDependency THEN actualPackageName ELSE packageName
  IN CASE docs[normalized] = "none" -> [result |-> <<>>, error |-> "Cannot find module"]
       [] docs[normalized] = "nosource" -> [result |-> <<>>, error |-> "no valid source entry"]
       [] docs[normalized] = "nopath" -> [result |-> <<>>, error |-> "full path does not exist"]
       [] OTHER ->
            [result |-> <<[packageName |-> linkedName,
                           actualPackageName |-> actualPackageName,
                           isDependency |-> isDependency,
                           fullPath |-> RootPath \o relativePath,
                           relativePath |-> relativePath,
                           source |-> source,
                           isAlias |-> linkedName # actualPackageName,
                           normalizedPath |-> <<linkedName>> \o source]>>,
             error |-> Null]

\* A resolver whose catch block throws the error on when dependencies are not auto-parsed.
parseNormalizedPackageRethrow(packageName, opt, sil, docs) ==
  LET normalized == normalizeSync(packageName)
  IN IF normalized # Null
     THEN LET t == TryLink(packageName, normalized, docs)
          IN IF t.error = Null
             THEN [result |-> t.result, error |-> Null,
                   log |-> LogUnless(sil, Line("Info", "linked", packageName))]
             ELSE [result |-> <<>>, error |-> t.error, log |-> <<>>]
     ELSE [result |-> <<>>, error |-> Null,
           log |-> LogUnless(sil, Line("Warning", "skipping, not a JSPM package", packageName))]

\* parseNormalizedPackage(System, rootPath, packageName), lines 592-682: [result, error, log];
\* result is <<>> for null, error is what leaves the function (its catch block keeps all).
parseNormalizedPackage(packageName, opt, sil, docs) ==
  LET normalized == normalizeSync(packageName)
  IN IF normalized # Null
     THEN LET t == TryLink(packageName, normalized, docs)
          IN IF t.error = Null
             THEN [result |-> t.result, error |-> Null,
                   log |-> LogUnless(sil, Line("Info", "linked", packageName))]
             ELSE [result |-> <<>>, error |-> Null,
                   log |-> IF ~Truthy(opt.parseDependencies) /\ ~Truthy(sil)
                           THEN <<Line("Error", t.error, packageName)>> ELSE <<>>]
     ELSE [result |-> <<>>, error |-> Null,
           log |-> LogUnless(sil, Line("Warning", "skipping, not a JSPM package", packageName))]

-----------------------------------------------------------------------------
(* The include list and the rule tables of onHandleConfig.  A path is its    *)
(* sequence of segments; a rule is [from, to]; "^", "from" and ">" stand for *)
(* the fixed prefix of the pattern.                                          *)

Last(q) == q[Len(q)]

\* includes without the local source root.
IncludesPackagesOnly(localSrcRoot, packageData) ==
  [i \in 1..Len(packageData) |-> <<"^">> \o packageData[i].relativePath]

\* includes: the local source root, then the source root of every record.
Includes(localSrcRoot, packageData) ==
  <<(<<"^">> \o localSrcRoot)>> \o
    [i \in 1..Len(packageData) |-> <<"^">> \o packageData[i].relativePath]

\* codeReplace with the relative path as the replacement.
CodeRulesRelative(packageData) ==
  [i \in 1..Len(packageData) |->
     [from |-> <<"from">> \o packageData[i].normalizedPath, to |-> packageData[i].relativePath]]

CodeRules(packageData) ==
  [i \in 1..Len(packageData) |->
     [from |-> <<"from">> \o packageData[i].normalizedPath, to |-> packageData[i].fullPath]]

ImportRules(packageData, rootPackageName, rootDir, localSrcRoot) ==
  <<[from |-> <<rootPackageName, rootDir>> \o localSrcRoot,
     to   |-> <<rootPackageName>> \o localSrcRoot]>> \o
    [i \in 1..Len(packageData) |->
       [from |-> <<rootPackageName, rootDir>> \o packageData[i].relativePath,
        to   |-> packageData[i].normalizedPath]]

\* '(' + actualPackageName + '):<br>' for an alias, '' otherwise.
AliasNote(record) ==
  IF record.isAlias THEN <<"(", record.actualPackageName, "):<br>">> ELSE <<>>

\* htmlReplace whose prefixed form only takes the root directory away and leaves the rest
\* to the bare form.
HtmlRulesViaBare(packageData, rootDir) ==
  [j \in 1..(2 * Len(packageData)) |->
     LET record == packageData[(j + 1) \div 2]
     IN [from |-> IF j % 2 = 1 THEN <<">", rootDir>> \o record.relativePath
                  ELSE <<">">> \o record.relativePath,
         to   |-> IF j % 2 = 1 THEN <<">">> \o record.relativePath
                  ELSE <<">">> \o AliasNote(record) \o record.normalizedPath]]

\* htmlReplace with the bare form of a record before its root-dir-prefixed form.
HtmlRulesBareFirst(packageData, rootDir) ==
  [j \in 1..(2 * Len(packageData)) |->
     LET record == packageData[(j + 1) \div 2]
     IN [from |-> IF j % 2 = 0 THEN <<">", rootDir>> \o record.relativePath
                  ELSE <<">">> \o record.relativePath,
         to   |-> <<">">> \o AliasNote(record) \o record.normalizedPath]]

HtmlRules(packageData, rootDir) ==
  [j \in 1..(2 * Len(packageData)) |->
     LET record == packageData[(j + 1) \div 2]
     IN [from |-> IF j % 2 = 1 THEN <<">", rootDir>> \o record.relativePath
                  ELSE <<">">> \o record.relativePath,
         to   |-> <<">">> \o AliasNote(record) \o record.normalizedPath]]

SearchRules(packageData, rootDir) ==
  [i \in 1..Len(packageData) |->
     [from |-> <<rootDir>> \o packageData[i].relativePath,
      to   |-> packageData[i].normalizedPath]]

-----------------------------------------------------------------------------
(* src/src/plugin.js (0.3 - 0.4): the callbacks.                             *)

\* The environment of a documentation run and the module-level state after the module loads.
Boot ==
  /\ packageJson \in Manifests
  /\ esdocJson \in DocConfigs
  /\ esdocFiles = FilesOf(esdocJson)
  /\ jspmConfig \in ConfigMaps
  /\ evOption = [packages |-> <<>>, parseDependencies |-> Undefined, silent |-> Undefined]
  /\ option = [packages |-> <<>>, parseDependencies |-> Undefined, silent |-> Undefined]
  /\ silent = Undefined
  /\ jspmPackageMap = UndefinedMap
  /\ config = [source |-> LocalSource, includes |-> UserIncludes]
  /\ normalizedData = <<>>
  /\ normalizedDataESDoc = <<>>
  /\ astReplace = <<>>
  /\ codeReplace = <<>>
  /\ importReplace = <<>>
  /\ htmlReplace = <<>>
  /\ searchReplace = <<>>
  /\ esdocPluginJspm = [defined |-> FALSE]
  /\ packageGraph = NoGraph
  /\ argPackageName = Null
  /\ log = <<>>
  /\ thrown = Null
  /\ pc = "boot"
  /\ ev = NoEvent
  /\ topLevelPackages = <<>>
  /\ seenPackages = {}
  /\ childPackages = <<>>
  /\ cntr = 1
  /\ wpc = "idle"

\* exports.onStart, lines 90-106.
onStartV4 ==
  /\ pc = "boot"
  /\ \E o \in Options :
       /\ evOption' = o
       /\ option' = [packages |-> o.packages,
                     parseDependencies |-> Or(o.parseDependencies, "true"),
                     silent |-> o.silent]
       /\ silent' = Or(o.silent, "false")
       /\ jspmPackageMap' = IF Len(o.packages) > 0
                            THEN [defined |-> TRUE, entries |-> PackagesToMap(o.packages, <<>>)]
                            ELSE jspmPackageMap
  /\ pc' = "started"
  /\ UNCHANGED <<ev, walkVars, packageJson, esdocJson, esdocFiles, ruleVars, config, normalizedData,
                 normalizedDataESDoc, esdocPluginJspm, packageGraph, argPackageName, log, thrown>>

\* The loop of lines 191-201 from entry i on: acc = [data, top, log, error]; an error that
\* leaves the resolver ends the loop and the callback.
RECURSIVE LinkTopLevel(_, _, _, _, _, _)
LinkTopLevel(entries, opt, sil, docs, i, acc) ==
  IF i > Len(entries) \/ acc.error # Null THEN acc
  ELSE Let(parseNormalizedPackage(entries[i].key, opt, sil, docs),
           LAMBDA r :
             LinkTopLevel(entries, opt, sil, docs, i + 1,
               [data  |-> acc.data \o r.result,
                top   |-> IF r.result # <<>> THEN Append(acc.top, entries[i].value)
                          ELSE acc.top,
                log   |-> acc.log \o r.log,
                error |-> r.error]))

\* The loop of lines 207-216 from child i on: acc = [data, log, error].
RECURSIVE LinkChildren(_, _, _, _, _, _)
LinkChildren(children, opt, sil, docs, i, acc) ==
  IF i > Len(children) \/ acc.error # Null THEN acc
  ELSE Let(parseNormalizedPackage(children[i], opt, sil, docs),
           LAMBDA r :
             LinkChildren(children, opt, sil, docs, i + 1,
               [data |-> acc.data \o r.result, log |-> acc.log \o r.log,
                error |-> r.error]))

\* exports.onHandleConfig, lines 116-288.
onHandleConfigV4 ==
  /\ pc = "started"
  /\ IF packageJson.kind \in {"missing", "invalid"}
     THEN /\ thrown' = "Could not locate package.json"
          /\ pc' = "aborted"
          /\ UNCHANGED <<topLevelPackages, seenPackages, childPackages, wpc, jspmPackageMap,
                         config, normalizedData, ruleVars, log>>
     ELSE \E m \in {IF Truthy(option.parseDependencies)
                     THEN parsePackageJsonJSPMDependencies(packageJson, jspmPackageMap, silent)
                     ELSE [map |-> jspmPackageMap, log |-> <<>>]} :
          \E tops \in {LinkTopLevel(m.map.entries, option, silent, esdocJson, 1,
                          [data |-> <<>>, top |-> <<>>,
                           log |-> m.log
                                     \o LogUnless(silent, Line("Info", "operating in root path",
                                                               Last(RootPath)))
                                     \o LogUnless(silent, Line("Info", "linked local source root",
                                                               "source")),
                           error |-> Null])} :
          \E walked \in {IF Truthy(option.parseDependencies) /\ tops.error = Null
                          THEN WalkerRun(tops.top, jspmConfig)
                          ELSE [seen |-> {}, child |-> <<>>]} :
          \E all \in {IF Truthy(option.parseDependencies) /\ tops.error = Null
                       THEN LinkChildren(walked.child, option, silent, esdocJson, 1,
                              [data |-> tops.data, log |-> tops.log, error |-> Null])
                       ELSE [data |-> tops.data, log |-> tops.log, error |-> tops.error]} :
          LET localSrcRoot == StripLeadingDir(config.source)
              rootDir == Last(RootPath)
              rootPackageName == Or(ManifestName, rootDir)
              walks == Truthy(option.parseDependencies) /\ tops.error = Null
              packageData == all.data
          IN /\ jspmPackageMap' = m.map
             /\ IF walks
                THEN /\ topLevelPackages' = tops.top
                     /\ seenPackages' = walked.seen
                     /\ childPackages' = walked.child
                     /\ wpc' = "done"
                ELSE UNCHANGED <<topLevelPackages, seenPackages, childPackages, wpc>>
             /\ log' = log \o all.log
             /\ IF all.error # Null
                THEN /\ thrown' = all.error
                     /\ pc' = "aborted"
                     /\ config' = [config EXCEPT !.source = <<".">>]
                     /\ UNCHANGED <<normalizedData, ruleVars>>
                ELSE /\ thrown' = Null
                     /\ pc' = "configured"
                     /\ normalizedData' = packageData
                     /\ config' = [source |-> <<".">>,
                                   includes |-> Includes(localSrcRoot, packageData)]
                     /\ codeReplace' = codeReplace \o CodeRules(packageData)
                     /\ importReplace' =
                          importReplace
                            \o ImportRules(packageData, rootPackageName, rootDir, localSrcRoot)
                     /\ htmlReplace' = htmlReplace \o HtmlRules(packageData, rootDir)
                     /\ searchReplace' = searchReplace \o SearchRules(packageData, rootDir)
                     /\ UNCHANGED astReplace
  /\ UNCHANGED <<ev, envVars, jspmConfig, cntr, option, silent, normalizedDataESDoc,
                 esdocPluginJspm, packageGraph, argPackageName>>

NextV4 == onStartV4 \/ onHandleConfigV4

SpecV4 == Boot /\ [][NextV4]_vars

-----------------------------------------------------------------------------
(* src/src/packageParser.js and src/unnamed/part_007 (0.6): the package      *)
(* parser and the callbacks.  typhonjs-config-jspm-parse (JSPMParser) is a   *)
(* library outside this repository: its answers are modelled after the code  *)
(* it was extracted from (src/src/plugin.js), and where packageParser.js     *)
(* gives no hint (does it keep a listed key that package.json does not       *)
(* declare?) both answers are possible.  options.devPackages is left at its  *)
(* default [].                                                               *)

\* hash[k] for a key the hash holds.
Lookup(entries, k) == entries[CHOOSE i \in 1..Len(entries) : entries[i].key = k].value

\* JSPMParser.getPackageJSPMDependencies(packageObj, jspmPackageMap, silent, logTitle): [map, log].
getPackageJSPMDependencies(packageObj, map, sil, keepsUndeclared) ==
  LET r == parsePackageJsonJSPMDependencies(packageObj, map, sil)
  IN IF keepsUndeclared THEN r
     ELSE [map |-> [defined |-> r.map.defined,
                    entries |-> SelectSeq(r.map.entries, LAMBDA e : e.value # Null)],
           log |-> r.log]

\* value.startsWith('npm:') || value.startsWith('github:')
IsHosted(value) == value \in Ids

\* s_FILTER_PACKAGE_MAP(packageMap): [entries, error]; value.startsWith throws a TypeError for
\* a null value; an undefined packageMap gives {}.
s_FILTER_PACKAGE_MAP(packageMap) ==
  IF \E i \in 1..Len(packageMap.entries) : packageMap.entries[i].value = Null
  THEN [entries |-> <<>>, error |-> "TypeError: Cannot read property 'startsWith' of null"]
  ELSE [entries |-> SelectSeq(packageMap.entries, LAMBDA e : IsHosted(e.value)),
        error |-> Null]

\* The record JSPMParser.parseNormalizedPackage builds for a name under jspm_packages.
NormalizedPackage(packageName) ==
  LET normalized == normalizeSync(packageName)
      name == ParsedName(normalized)
      actualPackageName == SplitAtShift(name)
      isDependency == HasAt(packageName)
      linkedName == IF isDependency THEN actualPackageName ELSE packageName
  IN [packageName |-> linkedName,
      actualPackageName |-> actualPackageName,
      isAlias |-> linkedName # actualPackageName,
      isDependency |-> isDependency,
      hasMainEntry |-> FALSE,
      fullPath |-> RootPath \o <<"jspm_packages", "npm", name>>,
      relativePath |-> <<"jspm_packages", "npm", name>>]

\* s_ESDOC_CONFIG_NAMES with esdoc.json first.
ConfigNamesJsonFirst == <<"esdocJson", "esdocrc">>

\* s_ESDOC_CONFIG_NAMES, line 248: '.esdocrc' and 'esdoc.json' as the fields of ConfigFiles.
s_ESDOC_CONFIG_NAMES == <<"esdocrc", "esdocJson">>

\* The loop of lines 282-293 from name i on: packageESDocConfig, "none" for undefined.  A
\* file that cannot be read or parsed leaves it undefined; the loop ends at the first value.
RECURSIVE LoadESDocConfig(_, _)
LoadESDocConfig(files, i) ==
  IF i > Len(s_ESDOC_CONFIG_NAMES) THEN "none"
  ELSE IF files[s_ESDOC_CONFIG_NAMES[i]] \notin {"missing", "invalid"}
       THEN files[s_ESDOC_CONFIG_NAMES[i]]
       ELSE LoadESDocConfig(files, i + 1)

\* packageESDocConfig after the loop, for every package directory.
LoadedConfigs(files) == [id \in Ids |-> LoadESDocConfig(files[id], 1)]

\* s_PARSE_ESDOC_PACKAGE without the check of `source`.
ParseESDocNoSourceCheck(result, sil, docs) ==
  LET normalized == CHOOSE id \in Ids : ParsedName(id) = result.relativePath[3]
      source == SourceOf(normalized)
      esdocSrcRoot == StripLeadingDir(source)
  IN IF docs[normalized] = "none" THEN [result |-> <<>>, error |-> Null, log |-> <<>>]
     ELSE [result |-> <<[result EXCEPT !.relativePath = @ \o esdocSrcRoot,
                                       !.fullPath = @ \o esdocSrcRoot] @@
                        [normalizedPath |-> <<result.packageName>> \o source]>>,
           error |-> Null,
           log |-> LogUnless(sil, Line("Info", "linked", result.packageName))]

\* s_PARSE_ESDOC_PACKAGE handed the object it returned for the same name by the call before,
\* as a library that keeps its results would hand it: the paths are extended once more.
ParseESDocOnKeptResult(result, sil, docs) ==
  LET normalized == CHOOSE id \in Ids : ParsedName(id) = result.relativePath[3]
      source == SourceOf(normalized)
      esdocSrcRoot == StripLeadingDir(source)
      kept == normalizedDataESDoc # <<>> /\ normalizedDataESDoc[1].packageName = result.packageName
      given == IF kept THEN normalizedDataESDoc[1] ELSE result
  IN CASE docs[normalized] \in {"none", "notobject"} ->
            [result |-> <<>>, error |-> Null, log |-> <<>>]
       [] docs[normalized] = "jsonnull" ->
            [result |-> <<>>, error |-> "TypeError: Cannot read property 'source' of null",
             log |-> <<>>]
       [] docs[normalized] = "nosource" ->
            [result |-> <<>>, error |-> "no valid source entry", log |-> <<>>]
       [] docs[normalized] = "nopath" ->
            [result |-> <<>>, error |-> "full path does not exist", log |-> <<>>]
       [] OTHER ->
            [result |-> <<[given EXCEPT !.relativePath = @ \o esdocSrcRoot,
                                        !.fullPath = @ \o esdocSrcRoot] @@
                          [normalizedPath |-> <<result.packageName>> \o source]>>,
             error |-> Null,
             log |-> LogUnless(sil, Line("Info", "linked", result.packageName))]

\* s_PARSE_ESDOC_PACKAGE(result, silent, logTitle), lines 276-334: [result, error, log];
\* result is <<>> for null, error what the function throws.
s_PARSE_ESDOC_PACKAGE(result, sil, docs) ==
  LET normalized == CHOOSE id \in Ids : ParsedName(id) = result.relativePath[3]
      source == SourceOf(normalized)
      esdocSrcRoot == StripLeadingDir(source)
  IN CASE docs[normalized] \in {"none", "notobject"} ->
            [result |-> <<>>, error |-> Null, log |-> <<>>]
       [] docs[normalized] = "jsonnull" ->
            [result |-> <<>>, error |-> "TypeError: Cannot read property 'source' of null",
             log |-> <<>>]
       [] docs[normalized] = "nosource" ->
            [result |-> <<>>, error |-> "no valid source entry", log |-> <<>>]
       [] docs[normalized] = "nopath" ->
            [result |-> <<>>, error |-> "full path does not exist", log |-> <<>>]
       [] OTHER ->
            [result |-> <<[result EXCEPT !.relativePath = @ \o esdocSrcRoot,
                                         !.fullPath = @ \o esdocSrcRoot] @@
                          [normalizedPath |-> <<result.packageName>> \o source]>>,
             error |-> Null,
             log |-> LogUnless(sil, Line("Info", "linked", result.packageName))]

\* JSPMParser.parseNormalizedPackage(System, packageName, rootPath, silent, logTitle[, parser]):
\* [result, error, log]; what the parser callback throws leaves the call.
JSPMParserParseNormalizedPackage(packageName, sil, docs, withParser) ==
  IF normalizeSync(packageName) = Null
  THEN [result |-> <<>>, error |-> Null,
        log |-> LogUnless(sil, Line("Warning", "skipping, not a JSPM package", packageName))]
  ELSE IF withParser
       THEN s_PARSE_ESDOC_PACKAGE(NormalizedPackage(packageName), sil, docs)
       ELSE [result |-> <<NormalizedPackage(packageName)>>, error |-> Null, log |-> <<>>]

\* packageResolver.getUniqueDependencyList(packageNames): the packages config.js reaches from
\* the given top-level names.
getUniqueDependencyList(packageNames, map) ==
  parseTopLevelDependencies([i \in 1..Len(packageNames) |-> normalizeSync(packageNames[i])], map)

\* "Save the normalized data" warning for every recorded packageName, whatever its path.
SaveNormalizedWarnSamePath(data, check, result, sil) ==
  IF result = <<>> THEN [data |-> data, check |-> check, log |-> <<>>]
  ELSE [data  |-> data \o result,
        check |-> Put(check, result[1].packageName, result[1].relativePath),
        log   |-> IF HasKey(check, result[1].packageName) /\ ~Truthy(sil)
                  THEN <<Line("Warning", "Duplicate package", result[1].packageName)>>
                  ELSE <<>>]

\* "Save the normalized data" keeping the first record of a packageName.
SaveNormalizedKeepFirst(data, check, result, sil) ==
  IF result = <<>> THEN [data |-> data, check |-> check, log |-> <<>>]
  ELSE IF HasKey(check, result[1].packageName)
       THEN [data  |-> data,
             check |-> check,
             log   |-> IF /\ ~Truthy(sil)
                          /\ Lookup(check, result[1].packageName) # result[1].relativePath
                       THEN <<Line("Warning", "Duplicate package", result[1].packageName)>>
                       ELSE <<>>]
       ELSE [data  |-> data \o result,
             check |-> Put(check, result[1].packageName, result[1].relativePath),
             log   |-> <<>>]

\* "Save the normalized data", lines 118-133 (and 139-155, 168-183, 194-209): data is the
\* record list, check the duplicateCheck hash, result a resolver result; [data, check, log]
\* with log the lines written.
SaveNormalized(data, check, result, sil) ==
  IF result = <<>> THEN [data |-> data, check |-> check, log |-> <<>>]
  ELSE [data  |-> data \o result,
        check |-> Put(check, result[1].packageName, result[1].relativePath),
        log   |-> IF /\ HasKey(check, result[1].packageName)
                     /\ ~Truthy(sil)
                     /\ Lookup(check, result[1].packageName) # result[1].relativePath
                  THEN <<Line("Warning", "Duplicate package", result[1].packageName)>>
                  ELSE <<>>]

\* The loop of lines 112-156 from entry i on:
\* acc = [data, check, top, dataESDoc, checkESDoc, topESDoc, log, error].
RECURSIVE LinkTopLevelV6(_, _, _, _, _)
LinkTopLevelV6(entries, sil, docs, i, acc) ==
  IF i > Len(entries) \/ acc.error # Null THEN acc
  ELSE Let(JSPMParserParseNormalizedPackage(entries[i].key, sil, docs, FALSE), LAMBDA r :
       Let(SaveNormalized(acc.data, acc.check, r.result, sil), LAMBDA s1 :
       Let(JSPMParserParseNormalizedPackage(entries[i].key, sil, docs, TRUE), LAMBDA e :
       Let(SaveNormalized(acc.dataESDoc, acc.checkESDoc, e.result, sil), LAMBDA s2 :
       Let([data       |-> s1.data,
            check      |-> s1.check,
            top        |-> IF r.result # <<>> THEN Append(acc.top, entries[i].key)
                           ELSE acc.top,
            dataESDoc  |-> s2.data,
            checkESDoc |-> s2.check,
            topESDoc   |-> IF e.result # <<>> THEN Append(acc.topESDoc, entries[i].key)
                           ELSE acc.topESDoc,
            log        |-> acc.log \o r.log \o s1.log \o e.log \o s2.log,
            error      |-> e.error],
           LAMBDA next : LinkTopLevelV6(entries, sil, docs, i + 1, next))))))

\* The loops of lines 162-184 and 188-210 from child i on: st = [data, check, log, error].
RECURSIVE LinkChildrenV6(_, _, _, _, _, _)
LinkChildrenV6(children, withParser, sil, docs, i, st) ==
  IF i > Len(children) \/ st.error # Null THEN st
  ELSE Let(JSPMParserParseNormalizedPackage(children[i], sil, docs, withParser), LAMBDA r :
       Let(SaveNormalized(st.data, st.check, r.result, sil), LAMBDA s1 :
       Let([data |-> s1.data, check |-> s1.check,
            log |-> st.log \o r.log \o s1.log, error |-> r.error],
           LAMBDA next : LinkChildrenV6(children, withParser, sil, docs, i + 1, next))))

\* What packageParser leaves when it throws.
Thrown(error, lines) == [error |-> error, log |-> lines]

\* packageParser(config, options), lines 21-240: the exported data with the lines written,
\* or the error thrown.
packageParser(packageObj, options, docs, map, keepsUndeclared) ==
  LET sil == options.silent
      walks == Truthy(options.parseDependencies)
      listed == IF Len(options.packages) > 0
                THEN [defined |-> TRUE, entries |-> PackagesToMap(options.packages, <<>>)]
                ELSE UndefinedMap
      rootDirName == Last(RootPath)
  IN IF packageObj.kind \in {"missing", "invalid"}
     THEN Thrown("Could not locate package.json", <<>>)
     ELSE
     Let(IF walks THEN getPackageJSPMDependencies(packageObj, listed, sil, keepsUndeclared)
         ELSE [map |-> listed, log |-> <<>>], LAMBDA m :
     Let(s_FILTER_PACKAGE_MAP(m.map), LAMBDA filtered :
     IF filtered.error # Null THEN Thrown(filtered.error, m.log)
     ELSE
     Let(LinkTopLevelV6(filtered.entries, sil, docs, 1,
           [data |-> <<>>, check |-> <<>>, top |-> <<>>,
            dataESDoc |-> <<>>, checkESDoc |-> <<>>, topESDoc |-> <<>>,
            log |-> m.log, error |-> Null]), LAMBDA tops :
     IF tops.error # Null THEN Thrown(tops.error, tops.log)
     ELSE
     Let(LinkChildrenV6(IF walks THEN getUniqueDependencyList(tops.top, map) ELSE <<>>,
           FALSE, sil, docs, 1,
           [data |-> tops.data, check |-> tops.check, log |-> tops.log, error |-> Null]),
         LAMBDA kids :
     IF kids.error # Null THEN Thrown(kids.error, kids.log)
     ELSE
     Let(LinkChildrenV6(IF walks THEN getUniqueDependencyList(tops.topESDoc, map) ELSE <<>>,
           TRUE, sil, docs, 1,
           [data |-> tops.dataESDoc, check |-> tops.checkESDoc, log |-> kids.log,
            error |-> Null]),
         LAMBDA kidsESDoc :
     IF kidsESDoc.error # Null THEN Thrown(kidsESDoc.error, kidsESDoc.log)
     ELSE [error |-> Null,
           log |-> kidsESDoc.log,
           jspmPackageMap |-> [defined |-> TRUE, entries |-> filtered.entries],
           normPackageData |-> kids.data,
           normPackageDataESDoc |-> kidsESDoc.data,
           rootDirName |-> rootDirName,
           rootPackageName |-> Or(ManifestName, rootDirName),
           rootPath |-> RootPath,
           uniqueDeps |-> getUniqueDependencyList(Keys(filtered.entries), map)])))))

\* The ast rules of lines 209-219 of part_007, from record i on.
RECURSIVE AstRules(_, _)
AstRules(packageData, i) ==
  IF i > Len(packageData) THEN <<>>
  ELSE <<[from |-> <<"^", packageData[i].packageName>>, to |-> packageData[i].relativePath]>>
         \o (IF packageData[i].hasMainEntry
             THEN <<[from |-> <<"^", packageData[i].packageName, "$">>,
                     to   |-> packageData[i].relativePath]>>
             ELSE <<>>)
         \o AstRules(packageData, i + 1)

\* onStart of part_007, lines 149-156.
onStartV6 ==
  /\ pc = "boot"
  /\ \E o \in Options :
       /\ evOption' = o
       /\ option' = [packages |-> o.packages,
                     parseDependencies |->
                       IF o.parseDependencies \in {"true", "false"}
                       THEN o.parseDependencies ELSE "true",
                     silent |-> IF o.silent \in {"true", "false"} THEN o.silent ELSE "false"]
  /\ pc' = "started"
  /\ UNCHANGED <<ev, walkVars, packageJson, esdocJson, esdocFiles, ruleVars, silent, jspmPackageMap, config,
                 normalizedData, normalizedDataESDoc, esdocPluginJspm, packageGraph, argPackageName, log,
                 thrown>>

\* onHandleConfig of part_007, lines 166-288.
onHandleConfigV6 ==
  /\ pc = "started"
  /\ \E keepsUndeclared \in BOOLEAN :
     \E docs \in {LoadedConfigs(esdocFiles)} :
     \E parsed \in {packageParser(packageJson, option, docs, jspmConfig, keepsUndeclared)} :
       LET localSrcRoot == StripLeadingDir(config.source)
           \* `rootDir` is no property of the exported data (it is named rootDirName).
           rootDir == Undefined
       IN /\ log' = log \o parsed.log
                      \o (IF parsed.error = Null
                          THEN LogUnless(option.silent,
                                         Line("Info", "operating in root path", Last(RootPath)))
                                 \o LogUnless(option.silent,
                                              Line("Info", "linked local source root", "source"))
                          ELSE <<>>)
          /\ IF parsed.error # Null
             THEN /\ thrown' = parsed.error
                  /\ pc' = "aborted"
                  /\ config' = [config EXCEPT !.source = <<".">>]
                  /\ UNCHANGED <<topLevelPackages, seenPackages, childPackages, wpc,
                                 jspmPackageMap, normalizedData, normalizedDataESDoc,
                                 esdocPluginJspm, ruleVars>>
             ELSE /\ thrown' = Null
                  /\ pc' = "configured"
                  /\ esdocPluginJspm' =
                       [defined |-> TRUE,
                        rootDirName |-> parsed.rootDirName,
                        rootPackageName |-> parsed.rootPackageName,
                        rootPath |-> parsed.rootPath,
                        uniqueDeps |-> parsed.uniqueDeps]
                  /\ jspmPackageMap' = parsed.jspmPackageMap
                  /\ topLevelPackages' = Keys(parsed.jspmPackageMap.entries)
                  /\ childPackages' = parsed.uniqueDeps
                  /\ seenPackages' = Range(parsed.uniqueDeps)
                  /\ wpc' = "done"
                  /\ normalizedData' = parsed.normPackageData
                  /\ normalizedDataESDoc' = parsed.normPackageDataESDoc
                  /\ config' = [source |-> <<".">>,
                                includes |-> Includes(localSrcRoot, parsed.normPackageDataESDoc)]
                  /\ astReplace' = astReplace \o AstRules(parsed.normPackageData, 1)
                  /\ codeReplace' = codeReplace \o CodeRules(parsed.normPackageDataESDoc)
                  /\ importReplace' =
                       importReplace
                         \o ImportRules(parsed.normPackageDataESDoc, parsed.rootPackageName,
                                        rootDir, localSrcRoot)
                  /\ htmlReplace' = htmlReplace \o HtmlRules(parsed.normPackageDataESDoc, rootDir)
                  /\ searchReplace' =
                       searchReplace \o SearchRules(parsed.normPackageDataESDoc, rootDir)
  /\ UNCHANGED <<ev, envVars, jspmConfig, cntr, option, silent, argPackageName, packageGraph>>

NextV6 == onStartV6 \/ onHandleConfigV6

SpecV6 == Boot /\ [][NextV6]_vars

MaxRuns == 2

\* The config preparations of the process that built rules: each pushed one import rule for
\* the local source root (lines 248-251).
RunsConfigured ==
  Cardinality({i \in 1..Len(importReplace) :
                 importReplace[i].to
                   = <<Or(ManifestName, Last(RootPath))>> \o StripLeadingDir(LocalSource)})

\* The host generates the documentation once more in the same process, for the same
\* esdoc.json and project: onStart of part_007 (lines 149-156) gets the same options, the
\* config object of the run is new, the module-level tables (lines 124-137) and the global
\* data are what the run before left.  log holds the lines of the run.
onStartAgainV6 ==
  /\ pc \in {"configured", "aborted"}
  /\ RunsConfigured < MaxRuns
  /\ option' = [packages |-> evOption.packages,
                parseDependencies |->
                  IF evOption.parseDependencies \in {"true", "false"}
                  THEN evOption.parseDependencies ELSE "true",
                silent |-> IF evOption.silent \in {"true", "false"} THEN evOption.silent
                           ELSE "false"]
  /\ config' = [source |-> LocalSource, includes |-> UserIncludes]
  /\ thrown' = Null
  /\ log' = <<>>
  /\ pc' = "started"
  /\ UNCHANGED <<ev, walkVars, envVars, ruleVars, silent, jspmPackageMap, normalizedData,
                 normalizedDataESDoc, esdocPluginJspm, packageGraph, argPackageName>>

SpecRerun == Boot /\ [][NextV6 \/ onStartAgainV6]_vars

-----------------------------------------------------------------------------
(* src/unnamed/part_007 (0.6): the per-unit callbacks of a run whose config  *)
(* preparation has finished.  A text is the sequence of its path segments;   *)
(* the white space between `from` and the quote of an import is left out     *)
(* (the callback writes one space).                                          *)

\* The options onStart leaves when esdoc.json gives none.
DocOption == [packages |-> <<>>, parseDependencies |-> "true", silent |-> "false"]

\* The state after onStart and onHandleConfig of part_007 for a run with default options, a
\* package.json that declares managed packages and doc-configs that are present and well
\* formed, or absent.
DocInit ==
  /\ packageJson \in {m \in Manifests : m.kind = "ok" /\ Range(m.deps) \subseteq {"b", "k"}}
  /\ esdocJson \in {d \in DocConfigs : \A id \in Ids : d[id] \in {"ok", "none"}}
  /\ esdocFiles = FilesOf(esdocJson)
  /\ jspmConfig \in ConfigMaps
  /\ evOption = [packages |-> <<>>, parseDependencies |-> Undefined, silent |-> Undefined]
  /\ option = DocOption
  /\ silent = Undefined
  /\ \E docs \in {LoadedConfigs(esdocFiles)} :
     \E parsed \in {packageParser(packageJson, DocOption, docs, jspmConfig, TRUE)} :
       /\ esdocPluginJspm = [defined |-> TRUE,
                             rootDirName |-> parsed.rootDirName,
                             rootPackageName |-> parsed.rootPackageName,
                             rootPath |-> parsed.rootPath,
                             uniqueDeps |-> parsed.uniqueDeps]
       /\ jspmPackageMap = parsed.jspmPackageMap
       /\ topLevelPackages = Keys(parsed.jspmPackageMap.entries)
       /\ childPackages = parsed.uniqueDeps
       /\ seenPackages = Range(parsed.uniqueDeps)
       /\ normalizedData = parsed.normPackageData
       /\ normalizedDataESDoc = parsed.normPackageDataESDoc
       /\ config = [source |-> <<".">>,
                    includes |-> Includes(StripLeadingDir(LocalSource),
                                          parsed.normPackageDataESDoc)]
       /\ astReplace = AstRules(parsed.normPackageData, 1)
       /\ codeReplace = CodeRules(parsed.normPackageDataESDoc)
       /\ importReplace = ImportRules(parsed.normPackageDataESDoc, parsed.rootPackageName,
                                      Undefined, StripLeadingDir(LocalSource))
       /\ htmlReplace = HtmlRules(parsed.normPackageDataESDoc, Undefined)
       /\ searchReplace = SearchRules(parsed.normPackageDataESDoc, Undefined)
       /\ log = parsed.log
                  \o <<Line("Info", "operating in root path", Last(RootPath)),
                       Line("Info", "linked local source root", "source")>>
  /\ cntr = 1
  /\ wpc = "done"
  /\ argPackageName = Null
  /\ thrown = Null
  /\ pc = "configured"
  /\ ev = NoEvent
  /\ packageGraph = NoGraph

\* One segment of a pattern that was put into a RegExp unescaped against one segment of a
\* text: `.` stands for any one character.
SegMatches(p, s) == p = s \/ (p = "." /\ s \in {".", "s"})

\* The pattern matches at the start of the text.
StartsWithPattern(pattern, text) ==
  /\ Len(text) >= Len(pattern)
  /\ \A i \in 1..Len(pattern) : SegMatches(pattern[i], text[i])

\* The import specifiers of a source file: of the linked packages by their normalized path,
\* of package b by another one-letter directory, of a package that is not linked, and of a
\* local file.
ImportSpecs ==
  {<<"b", ".", "src", "X.js">>, <<"k", ".", "src", "X.js">>, <<"a", "s", "lib", "X.js">>,
   <<"b", "s", "src", "X.js">>, <<"x", "X.js">>, <<".", "X.js">>}

\* An import statement: `from`, a quote and the specifier.
Imports == [quote : {"'", "\""}, spec : ImportSpecs]

MaxImports == 2

\* code.replace(codeReplace.from, (match, p1) => `from ${p1}${codeReplace.to}`) on one import.
ReplaceImport(rule, import) ==
  IF StartsWithPattern(Tail(rule.from), import.spec)
  THEN [import EXCEPT !.spec = rule.to \o SubSeq(@, Len(rule.from), Len(@))]
  ELSE import

\* The loop of onHandleCode from rule i on, on every import of the code (the RegExp is global).
RECURSIVE ReplaceCode(_, _, _)
ReplaceCode(rules, i, code) ==
  IF i > Len(rules) THEN code
  ELSE Let([j \in 1..Len(code) |-> ReplaceImport(rules[i], code[j])],
           LAMBDA next : ReplaceCode(rules, i + 1, next))

\* A loop that takes each rule off the table it reads.
RulesShifted(rules) == IF rules = <<>> THEN rules ELSE Tail(rules)

\* A loop that reads a rule table by index (rules[cntr], cntr < rules.length) leaves the
\* table as it found it.
RulesRead(rules) == rules

\* The host takes ev.data back when a callback has returned, and goes on to the next unit.
FinishUnit ==
  /\ pc = "configured"
  /\ ev.callback # "none"
  /\ ev' = NoEvent
  /\ UNCHANGED <<walkVars, envVars, ruleVars, runVars>>

\* onHandleCode(ev), lines 351-365.
onHandleCode ==
  /\ pc = "configured"
  /\ ev.callback = "none"
  /\ \E code \in SeqsUpTo(Imports, MaxImports) :
       ev' = [callback |-> "onHandleCode", given |-> code,
              data |-> ReplaceCode(codeReplace, 1, code)]
  /\ codeReplace' = RulesRead(codeReplace)
  /\ UNCHANGED <<walkVars, envVars, astReplace, importReplace, htmlReplace, searchReplace, runVars>>

\* The search index of ESDoc: an entry is [lower-case name, url, name, kind], each a text.  The
\* names hold no raw path, the raw path of a linked package under the root directory name or
\* under the directory name the rules were built with, once or twice.
RawPath(dir, record) == <<dir>> \o record.relativePath

SearchNames ==
  LET raws == {RawPath(dir, normalizedDataESDoc[i]) :
                 dir \in {Last(RootPath), Undefined}, i \in 1..Len(normalizedDataESDoc)}
  IN {<<"X">>} \cup {raw \o <<"X">> : raw \in raws}
               \cup {raw \o <<"X">> \o raw \o <<"Y">> : raw \in raws}

\* Entries of four elements, entries cut after the url and entries cut after the first
\* element.
SearchEntries ==
  {<<lower, <<"X.html">>, name, <<"class">>>> : lower \in {<<"x">>}, name \in SearchNames}
    \cup {<<name, <<"X.html">>, name, <<"class">>>> : name \in SearchNames}
    \cup {<<name, <<"X.html">>>> : name \in SearchNames}
    \cup {<<name>> : name \in SearchNames}

MaxEntries == 1

\* The position of the first occurrence of pattern in text, 0 when there is none.
IndexOf(text, pattern) ==
  LET at == {i \in 1..(Len(text) - Len(pattern) + 1) :
               SubSeq(text, i, i + Len(pattern) - 1) = pattern}
  IN IF at = {} THEN 0 ELSE CHOOSE i \in at : \A j \in at : i <= j

\* String.prototype.replace with a string pattern: the first occurrence only.
ReplaceFirst(text, from, to) ==
  LET i == IndexOf(text, from)
  IN IF i = 0 THEN text
     ELSE SubSeq(text, 1, i - 1) \o to \o SubSeq(text, i + Len(from), Len(text))

\* The inner loop of onComplete from rule i on, on the name of an entry.
RECURSIVE ReplaceName(_, _, _)
ReplaceName(rules, i, name) ==
  IF i > Len(rules) THEN name
  ELSE Let(ReplaceFirst(name, rules[i].from, rules[i].to),
           LAMBDA next : ReplaceName(rules, i + 1, next))

\* The body of the outer loop for one entry that holds a third element or less than two
\* elements; entry[2] of the code is entry[3] here.
ReplaceEntry(rules, entry) ==
  IF Len(entry) >= 3 THEN [entry EXCEPT ![3] = ReplaceName(rules, 1, @)] ELSE entry

\* onComplete(), lines 433-466: entry[2] of an entry of two elements is undefined and the call
\* of replace on it throws before the file is written.
onComplete ==
  /\ pc = "configured"
  /\ ev.callback = "none"
  /\ \E index \in SeqsUpTo(SearchEntries, MaxEntries) :
       IF \E i \in 1..Len(index) : Len(index[i]) = 2 /\ searchReplace # <<>>
       THEN /\ ev' = [callback |-> "onComplete", given |-> index, data |-> index]
            /\ thrown' = "TypeError"
            /\ pc' = "aborted"
       ELSE /\ ev' = [callback |-> "onComplete", given |-> index,
                      data |-> [i \in 1..Len(index) |-> ReplaceEntry(searchReplace, index[i])]]
            /\ UNCHANGED <<thrown, pc>>
  /\ searchReplace' = RulesRead(searchReplace)
  /\ UNCHANGED <<walkVars, envVars, astReplace, codeReplace, importReplace, htmlReplace,
                 option, silent, jspmPackageMap, config,
                 normalizedData, normalizedDataESDoc, esdocPluginJspm, packageGraph, argPackageName, log>>

\* The files ESDoc documents: a local one, one in the source directory of every linked
\* package, one in a package directory that belongs to no record.
TagFiles ==
  {<<"app", "X.js">>, <<"jspm_packages", "npm", "q@1", "X.js">>}
    \cup {normalizedDataESDoc[i].relativePath \o <<"X.js">> : i \in 1..Len(normalizedDataESDoc)}

\* '<package name>/<base root>/<path>', the import path ESDoc fabricates, under the root
\* directory name or under the directory name the rules were built with; <<>> is none.
TagImportPaths(file) ==
  {<<>>} \cup {<<esdocPluginJspm.rootPackageName, dir>> \o file : dir \in {Last(RootPath), Undefined}}

\* The tags of ESDoc: longname is '<base root>/<path>~<name>', relativePath is there or not
\* (<<>>), no package is associated yet.
Tags ==
  UNION {[longname : {[file |-> <<Last(RootPath)>> \o file, name |-> "X"]},
          relativePath : {<<>>, file},
          importPath : TagImportPaths(file),
          packageManager : {Undefined},
          packageData : {<<>>}] : file \in TagFiles}

MaxTags == 1

\* prefix is the start of text.
IsPrefix(prefix, text) ==
  Len(prefix) <= Len(text) /\ SubSeq(text, 1, Len(prefix)) = prefix

\* The body of the loop of onHandleTag for one tag, lines 384-412: packageData of the tag
\* is <<record>> when a record was associated.
HandleTag(tag, normPackageData, rules) ==
  LET relativePath == IF tag.relativePath = <<>> THEN Tail(tag.longname.file)
                      ELSE tag.relativePath
      jspm == IsPrefix(<<"jspm_packages">>, relativePath)
      hits == {i \in 1..Len(normPackageData) :
                 IsPrefix(normPackageData[i].relativePath, relativePath)}
  IN [tag EXCEPT !.relativePath = relativePath,
                 !.packageManager = IF jspm THEN "jspm" ELSE @,
                 !.packageData = IF jspm /\ hits # {}
                                 THEN <<normPackageData[CHOOSE i \in hits : \A j \in hits : i <= j]>>
                                 ELSE @,
                 !.importPath = IF @ = <<>> THEN @ ELSE ReplaceName(rules, 1, @)]

\* onHandleTag(ev), lines 378-414.
onHandleTag ==
  /\ pc = "configured"
  /\ ev.callback = "none"
  /\ \E tag \in SeqsUpTo(Tags, MaxTags) :
       ev' = [callback |-> "onHandleTag", given |-> tag,
              data |-> [i \in 1..Len(tag) |-> HandleTag(tag[i], normalizedData, importReplace)]]
  /\ importReplace' = RulesRead(importReplace)
  /\ UNCHANGED <<walkVars, envVars, astReplace, codeReplace, htmlReplace, searchReplace, runVars>>

\* The links of a generated page: the text behind a '>', a page name or the path of a file
\* of a linked package, bare, under the root directory name or under the directory name the
\* rules were built with.
HtmlLinks ==
  {<<"X.html">>}
    \cup {normalizedDataESDoc[i].relativePath \o <<"X.js">> : i \in 1..Len(normalizedDataESDoc)}
    \cup {<<dir>> \o normalizedDataESDoc[i].relativePath \o <<"X.js">> :
            dir \in {Last(RootPath), Undefined}, i \in 1..Len(normalizedDataESDoc)}

MaxLinks == 2

\* html.replace(htmlReplace.from, htmlReplace.to) on one link: both start with '>'.
ReplaceLink(rule, link) ==
  IF StartsWithPattern(Tail(rule.from), link)
  THEN Tail(rule.to) \o SubSeq(link, Len(rule.from), Len(link))
  ELSE link

\* The loop of onHandleHTML from rule i on, on every link of the page (the RegExp is global).
RECURSIVE ReplaceHTML(_, _, _)
ReplaceHTML(rules, i, html) ==
  IF i > Len(rules) THEN html
  ELSE Let([j \in 1..Len(html) |-> ReplaceLink(rules[i], html[j])],
           LAMBDA next : ReplaceHTML(rules, i + 1, next))

\* onHandleHTML(ev), lines 422-428.
onHandleHTML ==
  /\ pc = "configured"
  /\ ev.callback = "none"
  /\ \E html \in SeqsUpTo(HtmlLinks, MaxLinks) :
       ev' = [callback |-> "onHandleHTML", given |-> html,
              data |-> ReplaceHTML(htmlReplace, 1, html)]
  /\ htmlReplace' = RulesRead(htmlReplace)
  /\ UNCHANGED <<walkVars, envVars, astReplace, codeReplace, importReplace, searchReplace, runVars>>

NextDoc == onHandleCode \/ onHandleTag \/ onHandleHTML \/ onComplete \/ FinishUnit

SpecDoc == DocInit /\ [][NextDoc]_vars

-----------------------------------------------------------------------------
(* src/plugin.js (0.1): the callbacks.  The tracing lines the callbacks      *)
(* write to the console are left out; the line of the catch block is kept.   *)

\* packageESDocConfig.source inside a string concatenation.
SourceV1(normalized, docs) ==
  IF docs[normalized] = "nosource" THEN <<Undefined>> ELSE SourceOf(normalized)

\* The record of lines 150-157.
RecordV1(packageName, normalized, docs) ==
  LET name == ParsedName(normalized)
      source == SourceV1(normalized, docs)
  IN [packageName    |-> packageName,
      jspmFullPath   |-> RootPath \o <<"jspm_packages", "npm", name>> \o source,
      jspmPath       |-> <<"jspm_packages", "npm", name>> \o source,
      normalizedPath |-> <<packageName>> \o source,
      source         |-> source]

\* The loop of lines 127-164 from package i on: acc = [data, log].
RECURSIVE LinkV1(_, _, _, _)
LinkV1(packages, docs, i, acc) ==
  IF i > Len(packages) THEN acc
  ELSE Let(LET packageName == packages[i]
               normalized == normalizeSync(packageName)
           IN IF normalized = Null THEN acc
              ELSE IF docs[normalized] = "none"
                   THEN [acc EXCEPT !.log =
                           Append(@, Line("Log", "failed to require JSPM package esdoc.json",
                                          packageName))]
                   ELSE [acc EXCEPT !.data =
                           Append(@, RecordV1(packageName, normalized, docs))],
           LAMBDA next : LinkV1(packages, docs, i + 1, next))

\* exports.onStart, lines 47-55.
onStartV1 ==
  /\ pc = "boot"
  /\ \E o \in Options :
       /\ evOption' = o
       /\ option' = o
  /\ pc' = "started"
  /\ UNCHANGED <<ev, walkVars, packageJson, esdocJson, esdocFiles, ruleVars, silent, jspmPackageMap, config,
                 normalizedData, normalizedDataESDoc, esdocPluginJspm, packageGraph, argPackageName, log,
                 thrown>>

\* exports.onHandleConfig, lines 65-247: the catch block of lines 89-92 ignores a package.json
\* that cannot be read or parsed.
onHandleConfigV1 ==
  /\ pc = "started"
  /\ \E linked \in {LinkV1(option.packages, esdocJson, 1, [data |-> <<>>, log |-> <<>>])} :
       LET localSrcRoot == config.source
           rootDir == Last(RootPath)
           rootPackageName ==
             Or(IF packageJson.kind \in {"missing", "invalid"} THEN Undefined ELSE ManifestName,
                rootDir)
           packageData == linked.data
           n == Len(packageData)
       IN /\ normalizedData' = packageData
          /\ config' = [source   |-> <<".">>,
                        includes |-> <<(<<"^">> \o localSrcRoot)>> \o
                                       [i \in 1..n |-> <<"^">> \o packageData[i].jspmPath]]
          /\ codeReplace' =
               codeReplace \o
                 [i \in 1..n |-> [from |-> <<"from">> \o packageData[i].normalizedPath,
                                  to   |-> packageData[i].jspmFullPath]]
          /\ importReplace' =
               importReplace \o
                 <<[from |-> <<rootPackageName, rootDir>> \o localSrcRoot,
                    to   |-> <<rootPackageName>> \o localSrcRoot]>> \o
                 [i \in 1..n |-> [from |-> <<rootPackageName, rootDir>> \o packageData[i].jspmPath,
                                  to   |-> packageData[i].normalizedPath]]
          /\ htmlReplace' =
               htmlReplace \o
                 [j \in 1..(2 * n) |->
                    LET record == packageData[(j + 1) \div 2]
                    IN [from |-> IF j % 2 = 1 THEN <<">", rootDir>> \o record.jspmPath
                                 ELSE <<">">> \o record.jspmPath,
                        to   |-> <<">">> \o record.normalizedPath]]
          /\ searchReplace' =
               searchReplace \o
                 [i \in 1..n |-> [from |-> <<rootDir>> \o packageData[i].jspmPath,
                                  to   |-> packageData[i].normalizedPath]]
          /\ log' = log \o linked.log
  /\ thrown' = Null
  /\ pc' = "configured"
  /\ UNCHANGED <<ev, walkVars, envVars, option, silent, jspmPackageMap, normalizedDataESDoc,
                 astReplace, esdocPluginJspm, packageGraph, argPackageName>>

NextV1 == onStartV1 \/ onHandleConfigV1

SpecV1 == Boot /\ [][NextV1]_vars

-----------------------------------------------------------------------------
(* The resolvers on their own: parseNormalizedPackage of src/src/plugin.js   *)
(* and s_PARSE_ESDOC_PACKAGE of src/src/packageParser.js, applied to one     *)
(* package name under any doc-config table and any setting of the options.   *)

\* The names a resolver is handed: listed keys and the identities the walker returns.
ResolverNames == Names \cup Ids

ResolveInit ==
  /\ esdocJson \in DocConfigs
  /\ esdocFiles = FilesOf(esdocJson)
  /\ option \in [packages : {<<>>}, parseDependencies : {"true", "false"},
                 silent : {"true", "false"}]
  /\ silent = option.silent
  /\ packageJson = [kind |-> "nodeps", deps |-> <<>>]
  /\ jspmConfig = [id \in Ids |-> <<>>]
  /\ evOption = [packages |-> <<>>, parseDependencies |-> Undefined, silent |-> Undefined]
  /\ jspmPackageMap = UndefinedMap
  /\ config = [source |-> LocalSource, includes |-> UserIncludes]
  /\ normalizedData = <<>>
  /\ normalizedDataESDoc = <<>>
  /\ astReplace = <<>>
  /\ codeReplace = <<>>
  /\ importReplace = <<>>
  /\ htmlReplace = <<>>
  /\ searchReplace = <<>>
  /\ esdocPluginJspm = [defined |-> FALSE]
  /\ packageGraph = NoGraph
  /\ argPackageName = Null
  /\ log = <<>>
  /\ thrown = Null
  /\ pc = "boot"
  /\ ev = NoEvent
  /\ topLevelPackages = <<>>
  /\ seenPackages = {}
  /\ childPackages = <<>>
  /\ cntr = 1
  /\ wpc = "idle"

\* The call before the one that is made now: the resolver, its argument, and what it returned
\* and raised.
PreviousCall ==
  IF pc = "boot" THEN NoEvent
  ELSE [callback |-> pc, given |-> <<argPackageName>>,
        data |-> <<normalizedData, normalizedDataESDoc, thrown>>]

\* One call of parseNormalizedPackage(System, rootPath, packageName) of src/src/plugin.js:
\* normalizedData takes what it returns, thrown what leaves it, log what it writes.
ResolveV4 ==
  \E name \in ResolverNames :
    \E r \in {parseNormalizedPackage(name, option, silent, esdocJson)} :
      /\ argPackageName' = name
      /\ normalizedData' = r.result
      /\ thrown' = r.error
      /\ log' = r.log
      /\ pc' = "resolved"
      /\ ev' = PreviousCall
      /\ UNCHANGED <<walkVars, envVars, ruleVars, option, silent, jspmPackageMap, config,
                     normalizedDataESDoc, esdocPluginJspm, packageGraph>>

\* One call of s_PARSE_ESDOC_PACKAGE(result, silent, logTitle) on the record of a package
\* under jspm_packages: normalizedDataESDoc takes what it returns.
ParseESDoc ==
  \E name \in {n \in ResolverNames : normalizeSync(n) # Null} :
    \E r \in {s_PARSE_ESDOC_PACKAGE(NormalizedPackage(name), option.silent, esdocJson)} :
      /\ argPackageName' = name
      /\ normalizedDataESDoc' = r.result
      /\ thrown' = r.error
      /\ log' = r.log
      /\ pc' = "parsed"
      /\ ev' = PreviousCall
      /\ UNCHANGED <<walkVars, envVars, ruleVars, option, silent, jspmPackageMap, config,
                     normalizedData, esdocPluginJspm, packageGraph>>

ResolveNext == ResolveV4 \/ ParseESDoc

SpecResolve == ResolveInit /\ [][ResolveNext]_vars

-----------------------------------------------------------------------------
(* The doc-config files of part_007 / packageParser.js: a run, or one call   *)
(* of s_PARSE_ESDOC_PACKAGE, over package directories that hold any          *)
(* combination of the two files.                                             *)

\* Both files of at most one package differ from a well-formed esdoc.json alone.
ProbeFiles ==
  {f \in [Ids -> ConfigFiles] :
     Cardinality({id \in Ids : f[id] # [esdocrc |-> "missing", esdocJson |-> "ok"]}) <= 1}

ProbeInit ==
  /\ packageJson \in {[kind |-> "ok", deps |-> d] : d \in {<<"b">>, <<"k", "b">>}}
  /\ esdocFiles \in ProbeFiles
  /\ esdocJson = LoadedConfigs(esdocFiles)
  /\ jspmConfig = [id \in Ids |-> IF id = "npm:b@1" THEN <<"npm:a@1">> ELSE <<>>]
  /\ evOption = [packages |-> <<>>, parseDependencies |-> Undefined, silent |-> Undefined]
  /\ option = [packages |-> <<>>, parseDependencies |-> Undefined, silent |-> Undefined]
  /\ silent = Undefined
  /\ jspmPackageMap = UndefinedMap
  /\ config = [source |-> LocalSource, includes |-> UserIncludes]
  /\ normalizedData = <<>>
  /\ normalizedDataESDoc = <<>>
  /\ astReplace = <<>>
  /\ codeReplace = <<>>
  /\ importReplace = <<>>
  /\ htmlReplace = <<>>
  /\ searchReplace = <<>>
  /\ esdocPluginJspm = [defined |-> FALSE]
  /\ packageGraph = NoGraph
  /\ argPackageName = Null
  /\ log = <<>>
  /\ thrown = Null
  /\ pc = "boot"
  /\ ev = NoEvent
  /\ topLevelPackages = <<>>
  /\ seenPackages = {}
  /\ childPackages = <<>>
  /\ cntr = 1
  /\ wpc = "idle"

\* One call of s_PARSE_ESDOC_PACKAGE(result, silent, logTitle) on the record of a package
\* under jspm_packages, the files read as they are on disk.
ProbeESDoc ==
  /\ pc = "boot"
  /\ \E name \in {n \in ResolverNames : normalizeSync(n) # Null}, sil \in {"true", "false"} :
       \E docs \in {LoadedConfigs(esdocFiles)} :
       \E r \in {s_PARSE_ESDOC_PACKAGE(NormalizedPackage(name), sil, docs)} :
         /\ argPackageName' = name
         /\ option' = [option EXCEPT !.silent = sil]
         /\ normalizedDataESDoc' = r.result
         /\ thrown' = r.error
         /\ log' = r.log
         /\ pc' = "probed"
  /\ UNCHANGED <<ev, walkVars, envVars, ruleVars, silent, jspmPackageMap, config,
                 normalizedData, esdocPluginJspm, packageGraph>>

ProbeNext == onStartV6 \/ onHandleConfigV6 \/ ProbeESDoc

SpecProbe == ProbeInit /\ [][ProbeNext]_vars

-----------------------------------------------------------------------------
(* Utils.sanitizePackageID of part_007, lines 29-32, on strings as sequences *)
(* of characters.                                                            *)

\* The characters of a package identity: a letter, the characters the expression names,
\* `=` and `-`.
Chars == {"a", ".", "/", ":", "@", "^", ">", "<", "=", "~", "*", "-"}

MaxChars == 3

\* The one-character alternatives of the expression.
Special == {".", "/", ":", "@", "^", ">", "<", "~", "*"}

\* value.replace of the same expression without the g flag: the first match only.
sanitizeFirstMatch(value) ==
  LET at == {i \in 1..Len(value) : value[i] \in Special}
  IN IF at = {} THEN value
     ELSE LET i == CHOOSE i \in at : \A j \in at : i <= j
              n == IF value[i] \in {">", "<"} /\ i < Len(value) /\ value[i + 1] = "=" THEN 2 ELSE 1
          IN SubSeq(value, 1, i - 1) \o <<"-">> \o SubSeq(value, i + n, Len(value))

\* value.replace(/(\.|\/|:|@|\^|>=|>|<=|<|~|\*)/gi, '-'): at every position the first
\* alternative that matches is taken, so `>=` and `<=` go before `>` and `<`.
RECURSIVE sanitizePackageID(_)
sanitizePackageID(value) ==
  IF value = <<>> THEN <<>>
  ELSE IF Len(value) >= 2 /\ value[1] \in {">", "<"} /\ value[2] = "="
       THEN <<"-">> \o sanitizePackageID(SubSeq(value, 3, Len(value)))
       ELSE IF value[1] \in Special
            THEN <<"-">> \o sanitizePackageID(Tail(value))
            ELSE <<value[1]>> \o sanitizePackageID(Tail(value))

\* The module as loaded, and a string about to be sanitized: ev.given is the string, ev.data
\* the results of the applications made so far, each on the result of the one before.
SanitizeInit ==
  /\ ev \in [callback : {"none"}, given : SeqsUpTo(Chars, MaxChars), data : {<<>>}]
  /\ packageJson = [kind |-> "nodeps", deps |-> <<>>]
  /\ esdocJson = [i \in Ids |-> "ok"]
  /\ esdocFiles = FilesOf(esdocJson)
  /\ jspmConfig = [id \in Ids |-> <<>>]
  /\ evOption = [packages |-> <<>>, parseDependencies |-> Undefined, silent |-> Undefined]
  /\ option = [packages |-> <<>>, parseDependencies |-> Undefined, silent |-> Undefined]
  /\ silent = Undefined
  /\ jspmPackageMap = UndefinedMap
  /\ config = [source |-> LocalSource, includes |-> UserIncludes]
  /\ normalizedData = <<>>
  /\ normalizedDataESDoc = <<>>
  /\ astReplace = <<>>
  /\ codeReplace = <<>>
  /\ importReplace = <<>>
  /\ htmlReplace = <<>>
  /\ searchReplace = <<>>
  /\ esdocPluginJspm = [defined |-> FALSE]
  /\ packageGraph = NoGraph
  /\ argPackageName = Null
  /\ log = <<>>
  /\ thrown = Null
  /\ pc = "boot"
  /\ topLevelPackages = <<>>
  /\ seenPackages = {}
  /\ childPackages = <<>>
  /\ cntr = 1
  /\ wpc = "idle"

MaxApply == 2

\* Utils.sanitizePackageID(value) on the string, then on what the call before returned.
Sanitize ==
  /\ Len(ev.data) < MaxApply
  /\ ev' = [callback |-> "sanitizePackageID", given |-> ev.given,
            data |-> Append(ev.data,
                            sanitizePackageID(IF ev.data = <<>> THEN ev.given
                                              ELSE Last(ev.data)))]
  /\ UNCHANGED <<walkVars, envVars, ruleVars, runVars>>

SpecSanitize == SanitizeInit /\ [][Sanitize]_vars

-----------------------------------------------------------------------------
(* src/src/packageGraphParser.js over the data that packageParser of         *)
(* part_008 leaves in global.$$esdoc_plugin_jspm.  A node list is a sequence *)
(* of nodes whose index counts from 0; packageData of a node is the key of   *)
(* the record it refers to.                                                  *)

\* The characters of a full package name.
Spell(fullPackage) ==
  CASE fullPackage = "npm:a@1" -> <<"n", "p", "m", ":", "a", "@", "1">>
    [] fullPackage = "npm:b@1" -> <<"n", "p", "m", ":", "b", "@", "1">>
    [] fullPackage = "npm:b@2" -> <<"n", "p", "m", ":", "b", "@", "2">>

\* The package whose full name the characters spell, <<>> when they spell none.
Unspell(chars) ==
  IF \E id \in Ids : Spell(id) = chars THEN <<CHOOSE id \in Ids : Spell(id) = chars>> ELSE <<>>

\* A path behind a full package name: every segment after a separator.
PathChars(segments) ==
  [i \in 1..(2 * Len(segments)) |-> IF i % 2 = 1 THEN "/" ELSE segments[i \div 2]]

MaxGraphEdges == 3

\* config.js: the child packages of every package, each child once per parent.
GraphEdges ==
  {m \in [Ids -> DistinctSeqs(Ids, MaxGraphEdges)] : TotalLen(m, Ids) <= MaxGraphEdges}

\* The name a parent gives a child in its map: the name the project uses, or one of its own.
ChildKey(own, child) ==
  CASE child = "npm:a@1" -> IF own THEN "z" ELSE "a"
    [] child = "npm:b@1" -> IF own THEN "y" ELSE "b"
    [] child = "npm:b@2" -> IF own THEN "w" ELSE "k"

\* packageResolver.childPackageMap: full package name -> (name -> full package name).
ChildPackageMap(edges, owners) ==
  [p \in Ids |-> [i \in 1..Len(edges[p]) |->
                    [key |-> ChildKey(p \in owners, edges[p][i]), value |-> edges[p][i]]]]

\* Utils.parseRelativePath(relativePath): 'jspm_packages/' is taken away and the first
\* separator becomes ':', so 'jspm_packages/npm/b@1/src' gives 'npm:b@1/src'.
parseRelativePath(relativePath) ==
  Spell(CHOOSE id \in Ids : ParsedName(id) = relativePath[3])
    \o PathChars(SubSeq(relativePath, 4, Len(relativePath)))

\* The records of lines 444-533 of part_008 for the given top-level names: the top-level
\* records, then the records of their dependencies.
NormData(names, edges) ==
  LET deps == getUniqueDependencyList(names, edges)
  IN [i \in 1..Len(names) |->
        LET r == NormalizedPackage(names[i])
        IN r @@ [fullPackage |-> parseRelativePath(r.relativePath)]]
       \o [i \in 1..Len(deps) |->
            NormalizedPackage(deps[i]) @@ [fullPackage |-> Spell(deps[i])]]

\* The record s_PARSE_ESDOC_PACKAGE makes of a record when the doc-config is well-formed.
WithSource(r) ==
  LET source == SourceOf(CHOOSE id \in Ids : ParsedName(id) = r.relativePath[3])
  IN [r EXCEPT !.relativePath = @ \o StripLeadingDir(source),
               !.fullPath = @ \o StripLeadingDir(source)]
       @@ [normalizedPath |-> <<r.packageName>> \o source]

\* The same for the doc-enabled records, every package with a well-formed doc-config.
NormDataESDoc(names, edges) ==
  LET deps == getUniqueDependencyList(names, edges)
  IN [i \in 1..Len(names) |->
        LET r == WithSource(NormalizedPackage(names[i]))
        IN r @@ [fullPackage |-> parseRelativePath(r.relativePath)]]
       \o [i \in 1..Len(deps) |->
            WithSource(NormalizedPackage(deps[i])) @@ [fullPackage |-> Spell(deps[i])]]

\* s_CREATE_NORM_MAP(normData): the last record of a package identity stays.
s_CREATE_NORM_MAP(normData) ==
  [id \in {sanitizePackageID(normData[i].fullPackage) : i \in 1..Len(normData)} |->
     LET at == {i \in 1..Len(normData) : sanitizePackageID(normData[i].fullPackage) = id}
     IN normData[CHOOSE i \in at : \A j \in at : j <= i]]

\* `root-${rootPackageName}-master`, also the mark of the record the root node refers to.
RootID == <<"root", "-", "master">>

\* s_DATA_FIELDS.
s_DATA_FIELDS ==
  {"normPackageDataAll", "normPackageDataDev", "normPackageDataESDoc", "normPackageDataMain"}

\* s_CORRECT_ALIASED_NAME that corrects the name and leaves isAlias as it is.
CorrectNameOnly(norm, objectID, packageName) ==
  [field \in s_DATA_FIELDS |->
     IF objectID \in DOMAIN norm[field] /\ norm[field][objectID].packageName # packageName
     THEN [norm[field] EXCEPT ![objectID].packageName = packageName]
     ELSE norm[field]]

\* s_CORRECT_ALIASED_NAME(objectID, packageName) on the four record maps.
s_CORRECT_ALIASED_NAME(norm, objectID, packageName) ==
  [field \in s_DATA_FIELDS |->
     IF objectID \in DOMAIN norm[field] /\ norm[field][objectID].packageName # packageName
     THEN [norm[field] EXCEPT ![objectID].packageName = packageName,
                              ![objectID].isAlias = TRUE]
     ELSE norm[field]]

\* packageNodeMap.has(objectID).
HasNode(g, objectID) == \E i \in 1..Len(g.nodes) : g.nodes[i].id = objectID

\* packageNodeMap.get(objectID): the position of the node in the list.
NodeAt(g, objectID) == CHOOSE i \in 1..Len(g.nodes) : g.nodes[i].id = objectID

\* normPackageDataAll[objectID] as a node keeps it: the key of the record, <<>> for undefined.
DataRef(norm, objectID) ==
  IF objectID \in DOMAIN norm.normPackageDataAll THEN objectID ELSE <<>>

\* Lines 73-131 for one scope: the top-level node and the link from the root.
AddTopNode(g, objectID, depth, scope, ref) ==
  IF HasNode(g, objectID) THEN g
  ELSE [nodes |-> Append(g.nodes, [id |-> objectID, minLevel |-> depth, packageScope |-> scope,
                                   packageData |-> ref, index |-> Len(g.nodes)]),
        links |-> IF depth > 0
                  THEN Append(g.links, [source |-> 0, target |-> Len(g.nodes),
                                        minLevel |-> depth])
                  ELSE g.links]

\* The loop of lines 61-132 from entry i on: st = [norm, all, main, dev, error].
RECURSIVE TopLevelNodes(_, _, _, _, _, _)
TopLevelNodes(top, main, dev, depth, i, st) ==
  IF i > Len(top) \/ st.error # Null THEN st
  ELSE Let(LET key == top[i].key
               objectID == sanitizePackageID(Spell(top[i].value))
               ref == DataRef(st.norm, objectID)
               norm == s_CORRECT_ALIASED_NAME(st.norm, objectID, key)
           IN IF ~HasKey(main, key) /\ ~HasKey(dev, key)
              THEN [st EXCEPT !.norm = norm, !.error = "unknown top level package"]
              ELSE [norm |-> norm,
                    all |-> AddTopNode(st.all, objectID, depth, "all", ref),
                    main |-> IF HasKey(main, key)
                             THEN AddTopNode(st.main, objectID, depth, "main", ref)
                             ELSE st.main,
                    dev |-> IF HasKey(dev, key)
                            THEN AddTopNode(st.dev, objectID, depth, "dev", ref)
                            ELSE st.dev,
                    error |-> Null],
           LAMBDA next : TopLevelNodes(top, main, dev, depth, i + 1, next))

\* Lines 258-268: the stored level of a node that is met again goes down to the new depth.
UpdateLevel(g, at, depth) ==
  IF depth < g.nodes[at].minLevel THEN [g EXCEPT !.nodes[at].minLevel = depth] ELSE g

\* The inner loop of lines 229-272 from entry j of childDepMap on:
\* acc = [norm, g, nextLevelPackages, error].
RECURSIVE ChildNodes(_, _, _, _, _, _)
ChildNodes(childDepMap, j, packageDep, scope, depth, acc) ==
  IF j > Len(childDepMap) THEN acc
  ELSE Let(LET objectID == sanitizePackageID(Spell(childDepMap[j].value))
               index == Len(acc.g.nodes)
               newNode == [id |-> objectID, minLevel |-> depth, packageScope |-> scope,
                           packageData |-> DataRef(acc.norm, objectID), index |-> index]
               norm == s_CORRECT_ALIASED_NAME(acc.norm, objectID, childDepMap[j].key)
           IN IF ~HasNode(acc.g, objectID)
              THEN [norm |-> norm,
                    g |-> [nodes |-> Append(acc.g.nodes, newNode),
                           links |-> Append(acc.g.links,
                                            [source |-> packageDep.index, target |-> index,
                                             minLevel |-> depth])],
                    nextLevelPackages |-> Append(acc.nextLevelPackages, newNode),
                    error |-> Null]
              ELSE LET at == NodeAt(acc.g, objectID)
                       g == UpdateLevel(acc.g, at, depth)
                   IN [acc EXCEPT !.norm = norm,
                                  !.g = [g EXCEPT !.links =
                                           Append(@, [source |-> packageDep.index,
                                                      target |-> g.nodes[at].index,
                                                      minLevel |-> depth])]],
           LAMBDA next : ChildNodes(childDepMap, j + 1, packageDep, scope, depth, next))

\* The outer loop of lines 212-273 from node i of packageDeps on.  The root node refers to a
\* record without fullPackage and has no entry in childPackageMap; a node without a record
\* makes the read of fullPackage throw.
RECURSIVE DepNodes(_, _, _, _, _, _)
DepNodes(packageDeps, i, childPackageMap, scope, depth, acc) ==
  IF i > Len(packageDeps) \/ acc.error # Null THEN acc
  ELSE Let(LET packageDep == packageDeps[i]
           IN IF packageDep.packageData = <<>>
              THEN [acc EXCEPT !.error = "TypeError: Cannot read property 'fullPackage'"]
              ELSE IF packageDep.packageData = RootID THEN acc
              ELSE LET named == Unspell(acc.norm.normPackageDataAll[packageDep.packageData]
                                          .fullPackage)
                   IN IF named = <<>> THEN acc
                      ELSE ChildNodes(childPackageMap[named[1]], 1, packageDep, scope, depth,
                                      acc),
           LAMBDA next : DepNodes(packageDeps, i + 1, childPackageMap, scope, depth, next))

\* s_DEPTH_TRAVERSAL_NODES(packageDeps, packageNodes, packageNodeMap, packageLinks,
\* packageScope, depth, options), lines 203-288: [norm, g, error].
RECURSIVE s_DEPTH_TRAVERSAL_NODES(_, _, _, _, _, _)
s_DEPTH_TRAVERSAL_NODES(packageDeps, norm, g, childPackageMap, scope, depth) ==
  Let(DepNodes(packageDeps, 1, childPackageMap, scope, depth,
               [norm |-> norm, g |-> g, nextLevelPackages |-> <<>>, error |-> Null]),
      LAMBDA level :
        IF level.error # Null \/ level.nextLevelPackages = <<>>
        THEN [norm |-> level.norm, g |-> level.g, error |-> level.error]
        ELSE s_DEPTH_TRAVERSAL_NODES(level.nextLevelPackages, level.norm, level.g,
                                     childPackageMap, scope, depth + 1))

\* The root node of lines 29-58 in one scope.
RootNode(scope, index) ==
  [id |-> RootID, minLevel |-> 0, packageScope |-> scope, packageData |-> RootID,
   index |-> index]

\* packageGraphParser(options), lines 22-199, on the global data and the module-level lists
\* as the calls before left them: [norm, all, main, dev, error].  The traversals run for all,
\* dev and main in this order.
packageGraphParser(global, lists) ==
  LET rooted == Truthy(global.rootPackageName)
      start == [s \in {"all", "main", "dev"} |->
                  [nodes |-> IF rooted
                             THEN Append(lists[s].nodes, RootNode(s, Len(lists[s].nodes)))
                             ELSE lists[s].nodes,
                   links |-> lists[s].links]]
      depth == IF rooted THEN 1 ELSE 0
      norm0 == [field \in s_DATA_FIELDS |-> global[field]]
  IN Let(TopLevelNodes(global.topLevelPackages, global.jspmPackageMap, global.jspmDevPackageMap,
                       depth, 1,
                       [norm |-> norm0, all |-> start.all, main |-> start.main,
                        dev |-> start.dev, error |-> Null]), LAMBDA tops :
     IF tops.error # Null THEN tops
     ELSE
     Let(s_DEPTH_TRAVERSAL_NODES(tops.all.nodes, tops.norm, tops.all, global.childPackageMap,
                                 "all", depth + 1), LAMBDA all :
     IF all.error # Null THEN [tops EXCEPT !.norm = all.norm, !.all = all.g, !.error = all.error]
     ELSE
     Let(s_DEPTH_TRAVERSAL_NODES(tops.dev.nodes, all.norm, tops.dev, global.childPackageMap,
                                 "dev", depth + 1), LAMBDA dev :
     IF dev.error # Null
     THEN [norm |-> dev.norm, all |-> all.g, main |-> tops.main, dev |-> dev.g,
           error |-> dev.error]
     ELSE
     Let(s_DEPTH_TRAVERSAL_NODES(tops.main.nodes, dev.norm, tops.main, global.childPackageMap,
                                 "main", depth + 1), LAMBDA main :
     [norm |-> main.norm, all |-> all.g, main |-> main.g, dev |-> dev.g,
      error |-> main.error]))))

\* The names package.json and config.js give the top-level packages.
TopNames == {"b", "k"}

\* Object.keys of a map with the given keys, in the order of the top-level list.
Among(top, keys) == SelectSeq(top, LAMBDA name : name \in keys)

\* A map from the names to what they normalize to.
NameMap(names) == [i \in 1..Len(names) |-> [key |-> names[i], value |-> normalizeSync(names[i])]]

\* The data packageParser of part_008 leaves (lines 535-566) for a config.js, the parents that
\* name their children themselves, the top-level names and those of jspm.dependencies and
\* jspm.devDependencies among them.  normPackageDataAll is normPackageDataMain extended by
\* the dev records, one object.
GlobalData(edges, owners, top, main, dev) ==
  LET normMain == s_CREATE_NORM_MAP(NormData(Among(top, main), edges))
      normDev == s_CREATE_NORM_MAP(NormData(Among(top, dev), edges))
      normAll == normDev @@ normMain
  IN [defined |-> TRUE,
      rootPackageName |-> Or(ManifestName, Last(RootPath)),
      childPackageMap |-> ChildPackageMap(edges, owners),
      jspmDevPackageMap |-> NameMap(Among(top, dev)),
      jspmPackageMap |-> NameMap(Among(top, main)),
      topLevelPackages |-> NameMap(top),
      normPackageDataAll |-> normAll,
      normPackageDataDev |-> normDev,
      normPackageDataMain |-> normAll,
      normPackageDataESDoc |-> s_CREATE_NORM_MAP(NormDataESDoc(Among(top, main), edges))]

\* The module as loaded and the data of a run whose packages have been parsed.
GraphInit ==
  /\ \E edges \in GraphEdges, owners \in {S \in SUBSET Ids : Cardinality(S) <= 1},
        top \in DistinctSeqs(TopNames, MaxTop), main \in SUBSET TopNames, dev \in SUBSET TopNames :
       /\ main \cup dev \subseteq Range(top)
       /\ jspmConfig = edges
       /\ esdocPluginJspm = GlobalData(edges, owners, top, main, dev)
  /\ packageGraph = NoGraph
  /\ packageJson = [kind |-> "nodeps", deps |-> <<>>]
  /\ esdocJson = [i \in Ids |-> "ok"]
  /\ esdocFiles = FilesOf(esdocJson)
  /\ evOption = [packages |-> <<>>, parseDependencies |-> Undefined, silent |-> Undefined]
  /\ option = DocOption
  /\ silent = Undefined
  /\ jspmPackageMap = UndefinedMap
  /\ config = [source |-> LocalSource, includes |-> UserIncludes]
  /\ normalizedData = <<>>
  /\ normalizedDataESDoc = <<>>
  /\ astReplace = <<>>
  /\ codeReplace = <<>>
  /\ importReplace = <<>>
  /\ htmlReplace = <<>>
  /\ searchReplace = <<>>
  /\ argPackageName = Null
  /\ log = <<>>
  /\ thrown = Null
  /\ pc = "packages parsed"
  /\ ev = NoEvent
  /\ topLevelPackages = <<>>
  /\ seenPackages = {}
  /\ childPackages = <<>>
  /\ cntr = 1
  /\ wpc = "idle"

\* Lines 165-198: the largest level of a node or a link.
MaxLevelOf(g) ==
  LET levels == {g.nodes[i].minLevel : i \in 1..Len(g.nodes)}
                  \cup {g.links[i].minLevel : i \in 1..Len(g.links)} \cup {0}
  IN CHOOSE n \in levels : \A m \in levels : m <= n

MaxCalls == 2

\* One call of packageGraphParser(options), the first of the process or a later one for the
\* same project: the lists take the nodes and links, the records
\* what s_CORRECT_ALIASED_NAME made of them, thrown what left the call.
GraphRun ==
  /\ pc \in {"packages parsed", "graphed"}
  /\ packageGraph.calls < MaxCalls
  /\ \E r \in {packageGraphParser(esdocPluginJspm,
                                   [all |-> [nodes |-> packageGraph.packageGraphAll.nodes,
                                             links |-> packageGraph.packageGraphAll.links],
                                    main |-> [nodes |-> packageGraph.packageGraphMain.nodes,
                                              links |-> packageGraph.packageGraphMain.links],
                                    dev |-> [nodes |-> packageGraph.packageGraphDev.nodes,
                                             links |-> packageGraph.packageGraphDev.links]])} :
       /\ esdocPluginJspm' =
            [esdocPluginJspm EXCEPT !.normPackageDataAll = r.norm.normPackageDataAll,
                                    !.normPackageDataDev = r.norm.normPackageDataDev,
                                    !.normPackageDataESDoc = r.norm.normPackageDataESDoc,
                                    !.normPackageDataMain = r.norm.normPackageDataMain]
       /\ packageGraph' =
            [built |-> r.error = Null,
             calls |-> packageGraph.calls + 1,
             packageGraphAll |-> [maxLevel |-> MaxLevelOf(r.all), nodes |-> r.all.nodes,
                                  links |-> r.all.links],
             packageGraphDev |-> [maxLevel |-> MaxLevelOf(r.dev), nodes |-> r.dev.nodes,
                                  links |-> r.dev.links],
             packageGraphMain |-> [maxLevel |-> MaxLevelOf(r.main), nodes |-> r.main.nodes,
                                   links |-> r.main.links]]
       /\ thrown' = r.error
       /\ pc' = IF r.error = Null THEN "graphed" ELSE "aborted"
  /\ UNCHANGED <<ev, walkVars, envVars, ruleVars, option, silent, jspmPackageMap, config,
                 normalizedData, normalizedDataESDoc, argPackageName, log>>

SpecGraph == GraphInit /\ [][GraphRun]_vars

-----------------------------------------------------------------------------
(* Reachability in the dependency map, stated without the walker.            *)

\* The identities one edge away from a key of S.
Succ(map, S) == UNION {Range(MapOf(map, k)) : k \in S}

RECURSIVE Closure(_, _)
Closure(map, R) ==
  LET R2 == R \cup Succ(map, R) IN IF R2 = R THEN R ELSE Closure(map, R2)

\* The identities reachable from S through one or more edges.
ReachPlus(map, S) == Closure(map, Succ(map, S))

\* The packages whose dependencies the walker reads: the top-level ones and the listed children.
Parents == (Range(topLevelPackages) \cup Range(childPackages)) \cap Ids

\* The map has a cycle (a self-dependency included).
Cyclic(map) == \E x \in DOMAIN map : x \in ReachPlus(map, {x})

-----------------------------------------------------------------------------
(* C1: for every dependency map (cyclic ones included) and every top-level   *)
(* list, the list the walker returns holds no package identity twice,        *)
(* however many parents reference it.                                        *)
C1_NoRepeatedIdentity == wpc = "done" => NoDup(childPackages)

\* The walker returned, on a cyclic map, a package that two of the packages it read depend on.
C1_Witness ==
  /\ wpc = "done"
  /\ Cyclic(jspmConfig)
  /\ \E d \in Range(childPackages) :
        Cardinality({p \in Parents : d \in Range(jspmConfig[p])}) >= 2

(* C2: the list the walker returns never holds a package it was started      *)
(* from as a top-level package, even when the map leads back to it.          *)
C2_ExcludesTopLevel ==
  wpc = "done" => Range(childPackages) \cap Range(topLevelPackages) = {}

(* C3: the walker terminates on every finite dependency map, cycles and      *)
(* self-dependencies included, and its work list no longer grows once every  *)
(* reachable package has been seen.                                          *)
C3_WalkerTerminates ==
  /\ <>(wpc = "done")
  /\ [][ReachPlus(jspmConfig, Range(topLevelPackages)) \subseteq seenPackages
          => childPackages' = childPackages]_vars

\* The walker returned on a map with a self-dependency and a longer cycle through a listed package.
C3_Witness ==
  /\ wpc = "done"
  /\ \E x \in Range(childPackages) : x \in Range(jspmConfig[x])
  /\ \E x, y \in Range(childPackages) :
        x # y /\ y \in Range(jspmConfig[x]) /\ x \in Range(jspmConfig[y])

(* C4: the set of packages the walker returns is the set of packages         *)
(* reachable from the top-level packages through one or more edges of the    *)
(* dependency map.                                                           *)
C4_TransitiveClosure ==
  wpc = "done" =>
    Range(childPackages) = ReachPlus(jspmConfig, Range(topLevelPackages))

\* The walker returned a package no top-level package depends on directly, and left one out.
C4_Witness ==
  /\ wpc = "done"
  /\ \E d \in Range(childPackages) : d \notin Succ(jspmConfig, Range(topLevelPackages))
  /\ \E d \in Ids : d \notin Range(childPackages)

-----------------------------------------------------------------------------
(* Config preparation, stated over the finished callback.                    *)

\* onHandleConfig returned or threw.
Prepared == pc \in {"configured", "aborted"}

\* package.json was read and parsed.
ManifestRead == packageJson.kind \notin {"missing", "invalid"}

\* The managed packages whose doc-config was loaded without a string `source`, or whose
\* source path is not on disk.
Malformed == {id \in Ids : esdocJson[id] \in {"nosource", "nopath"}}

\* The names the run handed to the resolver: the keys of the top-level mapping and the
\* packages the walker returned.
Requested == Range(Keys(jspmPackageMap.entries)) \cup Range(childPackages)

\* The package directory a record was built from.
RecordDir(record) == record.relativePath[3]

\* The log holds a line of this level about this name.
Logged(level, about) == \E i \in 1..Len(log) : log[i].level = level /\ log[i].about = about

C9_UndeclaredDropped ==
  (Prepared /\ packageJson.kind = "ok") =>
     \A n \in Range(evOption.packages) :
        n \notin Range(packageJson.deps) =>
           /\ ~HasKey(jspmPackageMap.entries, n)
           /\ Truthy(silent) \/ Logged("Warning", n)
           /\ pc = "configured"
           /\ \A i \in 1..Len(normalizedData) : normalizedData[i].packageName # n

C8_ManifestErrorIsFatal ==
  (Prepared /\ ~ManifestRead) =>
     /\ pc = "aborted"
     /\ thrown # Null
     /\ normalizedData = <<>>
     /\ normalizedDataESDoc = <<>>
     /\ astReplace = <<>>
     /\ codeReplace = <<>>
     /\ importReplace = <<>>
     /\ htmlReplace = <<>>
     /\ searchReplace = <<>>
     /\ config.includes = UserIncludes

\* The names packageParser resolves into normPackageData, in the order of resolution.
ResolvedNames ==
  topLevelPackages \o (IF Truthy(option.parseDependencies) THEN childPackages ELSE <<>>)

DuplicateWarned(name) ==
  \E l \in 1..Len(log) : log[l].text = "Duplicate package" /\ log[l].about = name

\* Records i < j of the final record set come from two distinct names that the loader
\* resolved to one package path.
SamePathPair(i, j) ==
  /\ i < j
  /\ ResolvedNames[i] # ResolvedNames[j]
  /\ normalizedData[i].relativePath = normalizedData[j].relativePath

C12_IncludesExact ==
  pc = "configured" =>
     /\ Len(config.includes) = 1 + Len(normalizedDataESDoc)
     /\ config.includes[1] = <<"^", "app">>
     /\ \A i \in 1..Len(normalizedDataESDoc) :
          config.includes[i + 1] = <<"^">> \o normalizedDataESDoc[i].relativePath
     /\ \A i \in 1..Len(config.includes) : config.includes[i] \notin Range(UserIncludes)

\* Config preparation linked one doc-enabled package and wrote an include list of two entries.
C12_Witness ==
  /\ pc = "configured"
  /\ Len(normalizedDataESDoc) = 1
  /\ Len(config.includes) = 2
  /\ config.includes[2] = <<"^", "jspm_packages", "npm", "b@1", "src">>


\* The records of the doc-enabled packages whose normalizedPath the specifier starts with,
\* by their position in the record list.
LinkedBy(spec) ==
  {r \in 1..Len(normalizedDataESDoc) :
     /\ Len(spec) >= Len(normalizedDataESDoc[r].normalizedPath)
     /\ SubSeq(spec, 1, Len(normalizedDataESDoc[r].normalizedPath))
          = normalizedDataESDoc[r].normalizedPath}

\* The records whose code rule matches the specifier, by their position.
MatchedBy(spec) ==
  {r \in 1..Len(normalizedDataESDoc) :
     StartsWithPattern(normalizedDataESDoc[r].normalizedPath, spec)}

\* The specifier with its first n segments replaced by the path.
Rebased(spec, n, path) == path \o SubSeq(spec, n + 1, Len(spec))

Min(S) == CHOOSE n \in S : \A m \in S : n <= m

-----------------------------------------------------------------------------
(* C14: the search index after onComplete.                                   *)

Contains(text, pattern) == IndexOf(text, pattern) # 0

\* The raw path of some linked package under the given directory name occurs in the entry.
HoldsRawPath(entry, dir) ==
  \E f \in 1..Len(entry), i \in 1..Len(normalizedDataESDoc) :
    Contains(entry[f], RawPath(dir, normalizedDataESDoc[i]))

\* C14: after onComplete has returned, no entry of the search index contains the raw path
\* <rootDir>/<relativePath> of a linked package.
C14_NoRawPathLeft ==
  (ev.callback = "onComplete" /\ thrown = Null) =>
    \A e \in 1..Len(ev.data) : ~HoldsRawPath(ev.data[e], Last(RootPath))


-----------------------------------------------------------------------------
(* C15: the doc-config filenames.                                            *)

Loads(kind) == kind \notin {"missing", "invalid"}

\* What the first file that loads, in the order .esdocrc, esdoc.json, holds; <<>> when none.
FirstThatLoads(files) ==
  IF Loads(files.esdocrc) THEN <<files.esdocrc>>
  ELSE IF Loads(files.esdocJson) THEN <<files.esdocJson>>
  ELSE <<>>

\* What the resolver raises for the value it uses.
RaisedFor(kind) ==
  CASE kind = "nosource" -> "no valid source entry"
    [] kind = "nopath" -> "full path does not exist"
    [] kind = "jsonnull" -> "TypeError: Cannot read property 'source' of null"
    [] OTHER -> Null

HasRecordESDoc(id) ==
  \E i \in 1..Len(normalizedDataESDoc) : normalizedDataESDoc[i].relativePath[3] = ParsedName(id)

\* C15: the resolver uses the first of .esdocrc, esdoc.json that loads: a call on its own
\* returns a record or raises as that file's value demands, and returns null without raising
\* when neither loads; in a run, with or without an explicit package list, a package neither
\* of whose files loads has no doc-enabled record, and a resolver error is the one the first
\* loading file of some package demands.
C15_FirstLoadingConfigWins ==
  /\ pc = "probed" =>
       LET used == FirstThatLoads(esdocFiles[normalizeSync(argPackageName)])
       IN /\ used = <<>> => normalizedDataESDoc = <<>> /\ thrown = Null
          /\ used # <<>> =>
               /\ thrown = RaisedFor(used[1])
               /\ used[1] = "ok" <=> Len(normalizedDataESDoc) = 1
  /\ Prepared =>
       /\ \A id \in Ids : FirstThatLoads(esdocFiles[id]) = <<>> => ~HasRecordESDoc(id)
       /\ \A kind \in {"nosource", "nopath", "jsonnull"} :
            thrown = RaisedFor(kind) =>
              \E id \in Ids : FirstThatLoads(esdocFiles[id]) = <<kind>>

\* A run with an explicit package list links a package whose .esdocrc is well-formed and whose
\* esdoc.json has no source entry.
C15_Witness ==
  /\ pc = "configured"
  /\ option.packages # <<>>
  /\ thrown = Null
  /\ \E id \in Ids : /\ esdocFiles[id] = [esdocrc |-> "ok", esdocJson |-> "nosource"]
                      /\ HasRecordESDoc(id)


-----------------------------------------------------------------------------
(* C16: a package name resolved twice.                                       *)

\* The last two calls were of the same resolver with the same package name.
ResolvedTwice ==
  /\ pc \in {"resolved", "parsed"}
  /\ ev.callback = pc
  /\ ev.given = <<argPackageName>>

-----------------------------------------------------------------------------
(* C17: sanitizePackageID applied twice.                                     *)

\* C17: sanitizePackageID(sanitizePackageID(x)) = sanitizePackageID(x) for every string x.
C17_SanitizeIdempotent ==
  Len(ev.data) >= 2 => ev.data[2] = ev.data[1]

\* The identity `a>=` with a further special character has been sanitized twice.
C17_Witness ==
  /\ ev.callback = "sanitizePackageID"
  /\ Len(ev.data) = 2
  /\ ev.given = <<">", "=", ".">>
  /\ ev.data[1] = <<"-", "-">>


-----------------------------------------------------------------------------
(* C18: what the steps after config preparation do to the package records.   *)

\* Graph construction after packageParser of part_008, or the callbacks after onHandleConfig
\* of part_007.
SpecRecords == (GraphInit \/ DocInit) /\ [][GraphRun \/ NextDoc]_vars

\* The names the package maps give the package with the given key: the names of the
\* top-level map and of the child maps whose values sanitize to the key.
NamesGiven(global, objectID) ==
  {e.key : e \in {x \in Range(global.topLevelPackages) :
                    sanitizePackageID(Spell(x.value)) = objectID}}
    \cup UNION {{e.key : e \in {x \in Range(global.childPackageMap[p]) :
                                  sanitizePackageID(Spell(x.value)) = objectID}} : p \in Ids}

\* The record maps of global.$$esdoc_plugin_jspm, none before part_008.
RecordMaps(global) ==
  IF "normPackageDataAll" \in DOMAIN global THEN [field \in s_DATA_FIELDS |-> global[field]]
  ELSE [field \in s_DATA_FIELDS |-> <<>>]

\* C18 as stated: no step after config preparation changes a field of a package record.
C18_RecordsImmutable ==
  [][/\ normalizedData' = normalizedData
     /\ normalizedDataESDoc' = normalizedDataESDoc
     /\ RecordMaps(esdocPluginJspm)' = RecordMaps(esdocPluginJspm)]_vars

\* C18: the per-file, per-tag, per-page and end-of-run callbacks change no package record.
\* Dependency-graph construction changes no field of a record other than packageName and
\* isAlias: a record it changes holds a name that a package map gives the package and
\* isAlias true.
C18_OnlyAliasCorrectionChangesRecords ==
  [][/\ normalizedData' = normalizedData
     /\ normalizedDataESDoc' = normalizedDataESDoc
     /\ \A field \in s_DATA_FIELDS :
          LET old == RecordMaps(esdocPluginJspm)[field]
              new == RecordMaps(esdocPluginJspm')[field]
          IN /\ DOMAIN new = DOMAIN old
             /\ \A objectID \in DOMAIN old :
                  /\ DOMAIN new[objectID] = DOMAIN old[objectID]
                  /\ \A f \in DOMAIN old[objectID] \ {"packageName", "isAlias"} :
                       new[objectID][f] = old[objectID][f]
                  /\ new[objectID] # old[objectID] =>
                       /\ pc \in {"packages parsed", "graphed"}
                       /\ new[objectID].isAlias = TRUE
                       /\ new[objectID].packageName \in NamesGiven(esdocPluginJspm, objectID)]_vars

\* Graph construction has run and a record holds the name a parent gives the package in its
\* own map, as an alias.
C18_Witness ==
  /\ pc = "graphed"
  /\ \E objectID \in DOMAIN RecordMaps(esdocPluginJspm).normPackageDataAll :
       LET record == esdocPluginJspm.normPackageDataAll[objectID]
       IN /\ record.packageName \in {ChildKey(TRUE, id) : id \in Ids}
          /\ record.packageName \in NamesGiven(esdocPluginJspm, objectID)
          /\ record.isAlias = TRUE

-----------------------------------------------------------------------------
(* C19: the levels of the nodes of a dependency graph.                       *)

\* The packages that are reached from the set T over at most n edges of config.js.
RECURSIVE Within(_, _)
Within(T, n) ==
  IF n = 0 THEN T
  ELSE LET P == Within(T, n - 1)
       IN P \cup UNION {Range(jspmConfig[p]) : p \in P}

\* The length of the shortest path from T to the package.
Depth(T, id) == Min({n \in 0..Cardinality(Ids) : id \in Within(T, n)})

\* The top-level packages of a graph.
TopOf(entries) == {entries[i].value : i \in 1..Len(entries)}

\* Every node of the graph is the root at level 0 or a package at one more than the length of
\* the shortest path from the top-level packages T, and every package T reaches is a node.
LevelsAreMinimal(g, T) ==
  /\ \A i \in 1..Len(g.nodes) :
       \/ g.nodes[i].id = RootID /\ g.nodes[i].minLevel = 0
       \/ \E id \in Within(T, Cardinality(Ids)) :
            /\ g.nodes[i].id = sanitizePackageID(Spell(id))
            /\ g.nodes[i].minLevel = 1 + Depth(T, id)
  /\ \A id \in Within(T, Cardinality(Ids)) :
       \E i \in 1..Len(g.nodes) : g.nodes[i].id = sanitizePackageID(Spell(id))

\* C19: after graph construction the minLevel of every node of the graphs all, main and dev
\* is the smallest depth at which its package is reached from the root of the graph.
C19_MinLevelIsMinimalDepth ==
  packageGraph.built =>
    /\ LevelsAreMinimal(packageGraph.packageGraphAll, TopOf(esdocPluginJspm.topLevelPackages))
    /\ LevelsAreMinimal(packageGraph.packageGraphMain, TopOf(esdocPluginJspm.jspmPackageMap))
    /\ LevelsAreMinimal(packageGraph.packageGraphDev, TopOf(esdocPluginJspm.jspmDevPackageMap))


\* C20: no call of the per-file, per-tag, per-page or end-of-run callback, in any number and
\* order, adds, removes or changes a rule of the code, import-path, HTML or search-index
\* table: every step of the documentation phase leaves the four tables as they were.
C20_RuleTablesReadOnly ==
  [][<<codeReplace, importReplace, htmlReplace, searchReplace>>'
       = <<codeReplace, importReplace, htmlReplace, searchReplace>>]_vars

\* A callback has returned, every table holds a rule and is the table config preparation
\* built from the doc-enabled records.
C20_Witness ==
  /\ ev.callback \in {"onHandleCode", "onHandleTag", "onHandleHTML", "onComplete"}
  /\ ev.data # ev.given
  /\ codeReplace # <<>> /\ codeReplace = CodeRules(normalizedDataESDoc)
  /\ importReplace = ImportRules(normalizedDataESDoc, esdocPluginJspm.rootPackageName,
                                 Undefined, StripLeadingDir(LocalSource))
  /\ htmlReplace # <<>> /\ htmlReplace = HtmlRules(normalizedDataESDoc, Undefined)
  /\ searchReplace # <<>> /\ searchReplace = SearchRules(normalizedDataESDoc, Undefined)


-----------------------------------------------------------------------------
(* C21: the option silent.                                                   *)

\* What packageParser does for the environment of the run when silent is false.
LoudRuns ==
  {packageParser(packageJson, [option EXCEPT !.silent = "false"], LoadedConfigs(esdocFiles),
                 jspmConfig, keepsUndeclared) : keepsUndeclared \in BOOLEAN}

\* C21: with silent true, onStart and onHandleConfig with the package parser and the
\* resolver write no Info and no Warning line, and onHandleConfig throws what it throws for
\* the same project when silent is false.
C21_SilentKeepsErrors ==
  (option.silent = "true" /\ pc \in {"started", "configured", "aborted"}) =>
    /\ \A i \in 1..Len(log) : log[i].level \notin {"Info", "Warning"}
    /\ pc # "started" => \E loud \in LoudRuns : thrown = loud.error

\* A silent run has ended with an error, and has written none of the lines the same run
\* writes when silent is false.
C21_Witness ==
  /\ option.silent = "true"
  /\ pc = "aborted"
  /\ thrown # Null
  /\ log = <<>>
  /\ \E loud \in LoudRuns : loud.error = thrown /\ loud.log # <<>>


-----------------------------------------------------------------------------
(* C22: a package.json without `jspm` or without `jspm.dependencies`.        *)

\* C22: when package.json has no `jspm` entry or no `jspm.dependencies` in it, the top-level
\* mapping of the run is empty, also when option.packages lists packages, the warning is
\* written unless silent, and config preparation completes with no package record.
C22_NoDependenciesNoLinks ==
  (Prepared /\ packageJson.kind \in {"nojspm", "nodeps"}) =>
     /\ jspmPackageMap = EmptyMap
     /\ Truthy(silent) \/ Logged("Warning", "package.json")
     /\ pc = "configured"
     /\ thrown = Null
     /\ normalizedData = <<>>


-----------------------------------------------------------------------------
(* C23: the order of the list the walker returns.                            *)

\* The identities at most n edges of the map away from the set T.
RECURSIVE Near(_, _, _)
Near(map, T, n) ==
  IF n = 0 THEN T ELSE LET P == Near(map, T, n - 1) IN P \cup Succ(map, P)

\* The distance of an identity from the set T: the number of edges of a shortest path.
Distance(map, T, id) == Min({n \in 0..Cardinality(Ids) : id \in Near(map, T, n)})

\* C23: the list the walker returns is in breadth-first order, no package comes after a
\* package that is farther from the top-level packages, and it is the list the top-level
\* order and the child order of every package determine.
C23_BreadthFirstOrder ==
  wpc = "done" =>
    /\ \A i, j \in 1..Len(childPackages) :
         i < j => Distance(jspmConfig, Range(topLevelPackages), childPackages[i])
                    <= Distance(jspmConfig, Range(topLevelPackages), childPackages[j])
    /\ childPackages = parseTopLevelDependencies(topLevelPackages, jspmConfig)


-----------------------------------------------------------------------------
(* C24: the number and the order of the rules.                               *)

\* C24: for N doc-enabled records config preparation builds N code rules, N + 1 import-path
\* rules with the rule of the local source root first, 2N HTML rules with the prefixed form
\* of a record before its bare form, and N search-index rules, each in record order.
C24_RuleCounts ==
  pc = "configured" =>
    LET N == Len(normalizedDataESDoc)
        localSrcRoot == StripLeadingDir(LocalSource)
    IN /\ Len(codeReplace) = N
       /\ Len(importReplace) = N + 1
       /\ Len(htmlReplace) = 2 * N
       /\ Len(searchReplace) = N
       /\ Tail(Tail(importReplace[1].from)) = localSrcRoot
       /\ importReplace[1].to = <<esdocPluginJspm.rootPackageName>> \o localSrcRoot
       /\ \A i \in 1..N :
            LET record == normalizedDataESDoc[i]
            IN /\ codeReplace[i] = [from |-> <<"from">> \o record.normalizedPath,
                                    to |-> record.fullPath]
               /\ Tail(Tail(importReplace[i + 1].from)) = record.relativePath
               /\ importReplace[i + 1].to = record.normalizedPath
               /\ Head(htmlReplace[2 * i - 1].from) = ">"
               /\ Tail(Tail(htmlReplace[2 * i - 1].from)) = record.relativePath
               /\ htmlReplace[2 * i].from = <<">">> \o record.relativePath
               /\ htmlReplace[2 * i - 1].to = htmlReplace[2 * i].to
               /\ htmlReplace[2 * i].to = <<">">> \o AliasNote(record) \o record.normalizedPath
               /\ Tail(searchReplace[i].from) = record.relativePath
               /\ searchReplace[i].to = record.normalizedPath

\* Config preparation has linked two doc-enabled packages, an alias among them.
C24_Witness ==
  /\ pc = "configured"
  /\ Len(normalizedDataESDoc) = 2
  /\ Len(htmlReplace) = 4
  /\ \E i \in 1..2 : normalizedDataESDoc[i].isAlias
  /\ normalizedDataESDoc[1].relativePath # normalizedDataESDoc[2].relativePath


-----------------------------------------------------------------------------
(* C25: the rules of the import-path and of the HTML sequence among each     *)
(* other.                                                                    *)

\* The rules of the sequence that change an import path when the sequence is applied to it.
ImportRulesThatChange(text) ==
  {i \in 1..Len(importReplace) :
     ReplaceName(SubSeq(importReplace, 1, i), 1, text)
       # ReplaceName(SubSeq(importReplace, 1, i - 1), 1, text)}

\* The rules of the sequence that change a link when the sequence is applied to it.
HtmlRulesThatChange(link) ==
  {i \in 1..Len(htmlReplace) :
     ReplaceHTML(SubSeq(htmlReplace, 1, i), 1, <<link>>)
       # ReplaceHTML(SubSeq(htmlReplace, 1, i - 1), 1, <<link>>)}

\* The doc-enabled records in whose source directory the file lies.
OwnersOf(file) ==
  {i \in 1..Len(normalizedDataESDoc) : IsPrefix(normalizedDataESDoc[i].relativePath, file)}

\* The rest of the path of a file behind the source directory of a record.
Behind(record, file) == SubSeq(file, Len(record.relativePath) + 1, Len(file))

\* The file a link names: the link without the directory name before 'jspm_packages'.
FileOfLink(link) ==
  IF Len(link) > 1 /\ link[2] = "jspm_packages" THEN Tail(link) ELSE link

\* C25: in the import-path and in the HTML sequence no rule matches what an earlier rule of
\* the sequence produced (at most one rule changes a path), a path is rewritten by a rule of
\* the package the file belongs to only (the local rule for a local file), and applying the
\* sequence to its own output changes nothing.
C25_RulesDoNotInterfere ==
  /\ ev.callback = "onHandleTag" =>
       /\ \A i \in 1..Len(ev.given) :
            LET file == Tail(ev.given[i].longname.file)
                before == ev.given[i].importPath
                after == ev.data[i].importPath
            IN /\ Cardinality(ImportRulesThatChange(before)) <= 1
               /\ \/ after = before
                  \/ \E r \in OwnersOf(file) :
                       after = normalizedDataESDoc[r].normalizedPath
                                 \o Behind(normalizedDataESDoc[r], file)
                  \/ /\ OwnersOf(file) = {}
                     /\ IsPrefix(StripLeadingDir(LocalSource), file)
                     /\ after = <<esdocPluginJspm.rootPackageName>> \o file
       /\ [i \in 1..Len(ev.data) |-> HandleTag(ev.data[i], normalizedData, importReplace)]
            = ev.data
  /\ ev.callback = "onHandleHTML" =>
       /\ \A i \in 1..Len(ev.given) :
            LET file == FileOfLink(ev.given[i])
            IN /\ Cardinality(HtmlRulesThatChange(ev.given[i])) <= 1
               /\ \/ ev.data[i] = ev.given[i]
                  \/ \E r \in OwnersOf(file) :
                       ev.data[i] = AliasNote(normalizedDataESDoc[r])
                                      \o normalizedDataESDoc[r].normalizedPath
                                      \o Behind(normalizedDataESDoc[r], file)
       /\ ReplaceHTML(htmlReplace, 1, ev.data) = ev.data

\* A page with the links of two packages has been rewritten, one of them an alias, each link
\* by a rule.
C25_Witness ==
  /\ ev.callback = "onHandleHTML"
  /\ Len(ev.given) = 2
  /\ \A i \in 1..2 : ev.data[i] # ev.given[i]
  /\ OwnersOf(FileOfLink(ev.given[1])) # OwnersOf(FileOfLink(ev.given[2]))
  /\ \E r \in OwnersOf(FileOfLink(ev.given[1])) : normalizedDataESDoc[r].isAlias


-----------------------------------------------------------------------------
(* C26: the rule tables of a run in a process that ran before.               *)

\* C26: after config preparation of a run each of the four sequences holds the rules of that
\* run's records and no other: N code, N + 1 import-path, 2N HTML and N search-index rules
\* for N doc-enabled records, also when config preparation ran before in the process.
C26_RulesOfThisRunOnly ==
  pc = "configured" =>
    /\ Len(codeReplace) = Len(normalizedDataESDoc)
    /\ Len(importReplace) = Len(normalizedDataESDoc) + 1
    /\ Len(htmlReplace) = 2 * Len(normalizedDataESDoc)
    /\ Len(searchReplace) = Len(normalizedDataESDoc)


-----------------------------------------------------------------------------
(* C27: the shape of the entries of the search index.                        *)

\* C27: onComplete does not fail because of the shape of an entry: an entry of fewer than
\* three elements is left as it is, and of a longer entry only the name (index 2 of the code)
\* is rewritten.
C27_ShortEntriesAreSkipped ==
  ev.callback = "onComplete" =>
    /\ thrown = Null
    /\ pc = "configured"
    /\ Len(ev.data) = Len(ev.given)
    /\ \A i \in 1..Len(ev.given) :
         /\ Len(ev.data[i]) = Len(ev.given[i])
         /\ \A k \in 1..Len(ev.given[i]) : k # 3 => ev.data[i][k] = ev.given[i][k]


-----------------------------------------------------------------------------
(* C28: records of one source directory.                                     *)

\* The relative source paths of a record list, in order.
RelativePaths(packageData) == [i \in 1..Len(packageData) |-> packageData[i].relativePath]

\* C28: the record lists config preparation leaves hold no two records with the same
\* relative source path, so config.includes names no path twice and no rule table holds a
\* rule twice.
C28_NoDuplicateRecords ==
  pc = "configured" =>
    /\ NoDup(RelativePaths(normalizedData))
    /\ NoDup(RelativePaths(normalizedDataESDoc))
    /\ NoDup(config.includes)
    /\ NoDup(codeReplace)
    /\ NoDup(importReplace)
    /\ NoDup(htmlReplace)
    /\ NoDup(searchReplace)


-----------------------------------------------------------------------------
(* C29: the root directory name in the rules.                                *)

\* C29: the root directory name in the import-path, HTML and search-index rules is the name
\* packageParser computed, the last segment of the root path, a defined and non-empty string.
C29_RootDirInRules ==
  pc = "configured" =>
    LET rootDirName == esdocPluginJspm.rootDirName
    IN /\ rootDirName = Last(RootPath)
       /\ rootDirName \notin {Undefined, Null, ""}
       /\ \A i \in 1..Len(importReplace) : importReplace[i].from[2] = rootDirName
       /\ \A i \in 1..Len(htmlReplace) : i % 2 = 1 => htmlReplace[i].from[2] = rootDirName
       /\ \A i \in 1..Len(searchReplace) : searchReplace[i].from[1] = rootDirName


-----------------------------------------------------------------------------
(* C30: the node and link lists of the dependency graphs.                    *)

\* The three graphs as the calls so far left them.
GraphsBuilt ==
  {packageGraph.packageGraphAll, packageGraph.packageGraphMain, packageGraph.packageGraphDev}

\* Node ids are pairwise distinct, the node at position i has index i, and every link joins
\* the indices of two nodes of the list.
WellFormedGraph(g) ==
  /\ \A i, j \in 1..Len(g.nodes) : g.nodes[i].id = g.nodes[j].id => i = j
  /\ \A i \in 1..Len(g.nodes) : g.nodes[i].index = i - 1
  /\ \A i \in 1..Len(g.links) :
       /\ g.links[i].source \in 0..(Len(g.nodes) - 1)
       /\ g.links[i].target \in 0..(Len(g.nodes) - 1)

\* C30: in each of the graphs all, main and dev node ids are pairwise distinct, the node at
\* position i of the node list has index i, and the source and target of every link are
\* indices of nodes of the list.
C30_GraphsAreWellFormed ==
  \A g \in GraphsBuilt : WellFormedGraph(g)

=============================================================================
